---------------------------- MODULE Spec2Model ----------------------------
(***************************************************************************)
(* Model of the scrape orchestration core of the PLUS product scraper:     *)
(*   src/scraper/main.py            scrape_task (the orchestrator loop)     *)
(*   src/scraper/product_scraper.py process_product / fetch_product        *)
(*   src/scraper/database.py        ProductDatabase (TinyDB tables)        *)
(*   src/scraper/utils.py           checkpoints, dead letters, backoff     *)
(*   src/scraper/proxy_manager.py   ProxyManager (identity pool)           *)
(*   src/scraper/sitemap_parser.py  SitemapParser (discovery)              *)
(*                                                                         *)
(* SKUs are modelled as positive integers, NoSku (0) is the empty string.  *)
(* The specifications share the variables:                                 *)
(*   Spec        successive runs of scrape_task over persistent files      *)
(*   SpecDb      ProductDatabase called directly                           *)
(*   SpecBackoff one call of a function wrapped by exponential_backoff     *)
(*   SpecProxy   ProxyManager called directly                              *)
(*   SpecFetch   one run of the loop, every fetch attempt step by step      *)
(*   SpecFilter  get_unprocessed_urls on any work list                     *)
(*   SpecCkpt    create_checkpoint, load_checkpoint and the resume         *)
(*   SpecStore   ProductDatabase opened and closed by successive processes *)
(*   SpecSitemap parse_sitemap with fetch_sitemap and its fallback         *)
(*   SpecDiscover runs of scrape_task with get_urls step by step           *)
(*   SpecRerun   the ordinary pipeline re-run for ever, fetches succeeding *)
(*   SpecPeriodic one run long enough for periodic checkpoints             *)
(*   SpecRate    the requests of one ProductScraper, with time             *)
(*   SpecCache   get_urls and the cache file of the work list              *)
(*   SpecCrash   processes that die while a checkpoint is saved            *)
(***************************************************************************)
EXTENDS Integers, Sequences, FiniteSets, TLC

(* ------------------------------ bounds --------------------------------- *)
\* number of work items in the cached sitemap
MaxItems == 3
\* number of successive runs of scrape_task
MaxRuns == 3
\* largest --batch-size tried
MaxBatch == 2
\* largest --skip tried
MaxSkip == 1
\* largest --limit tried (0 stands for "no --limit")
MaxLimit == 1
\* SpecDb: number of distinct non-empty SKUs, documents and batch length
MaxDbSku == 2
MaxDocs == 3
MaxDbBatch == 2
\* SpecDb: number of distinct extracted_at values
MaxStamp == 2
\* SpecBackoff: largest max_retries tried
MaxM == 3
\* SpecProxy: largest pool and number of distinct endpoints
MaxPool == 3
MaxUrl == 3
\* SpecFetch: items of the work list, proxies in the pool
MaxFetchItems == 2
MaxFetchPool == 2
\* SpecFilter: SKUs and length of the work list
MaxFilterSku == 3
MaxFilterLen == 3
\* SpecCkpt: positions and totals passed to create_checkpoint
MaxCkPos == 2
MaxCkTotal == 2
\* SpecStore: processes that open the database one after the other
MaxOpens == 3
\* SpecSitemap: calls of parse_sitemap, <loc> elements of the remote sitemap
MaxDiscoveries == 2
MaxLocs == 1
\* SpecPeriodic: length of the work list
MaxPeriodicItems == 11
MaxPeriodicFailures == 2
\* SpecRate: items fetched, and longest time spent outside the sleeps
MaxRateItems == 3
MaxLatency == 2
\* SpecCache: <url> elements of a sitemap, lengths of <loc> and <lastmod>
MaxCacheLocs == 1
MaxLocLen == 2
MaxModLen == 1

(* -------------------------- program constants -------------------------- *)
NoSku == 0
NoUrl == 0
NoFile == [exists |-> FALSE]
\* main.py:169  "if i % 10 == 0"
CheckpointEvery == 10
\* main.py:39  default of --batch-size
DefaultBatchSize == 10
\* product_scraper.py:26  self.max_retries: MAX_RETRIES, default 3
MAX_RETRIES == 3
\* product_scraper.py:28  REQUEST_DELAY, default .25 s, in hundredths
RequestDelay == 25
\* product_scraper.py:149  @exponential_backoff(max_retries=3, ...)
FetchMaxRetries == 3
\* proxy_manager.py:209  "if proxy["fail_count"] >= 3"
EvictThreshold == 3

VARIABLES
  \* persistent state (files under data/)
  products,         \* db.json table 'products': sequence, doc_id = index
  stats_table,      \* db.json table 'stats'
  retry_file,       \* data/retry.json: NoFile or [exists, entries]
  checkpoint,       \* data/checkpoint_scrape.json: NoFile or record
  now,              \* wall clock, one tick per run
  \* one run of scrape_task
  pc, args, urls_to_process, total_urls, start_idx, i, stats,
  products_to_save, retries, db_open,
  \* history of the current run
  visited, fetched, got, written, loaded, dl_start, exit_kind, fin,
  \* SpecDb
  db_hist,
  \* SpecBackoff
  bo_m, bo_retries, bo_delay, bo_calls, bo_excs, bo_sleeps, bo_result,
  \* SpecProxy
  proxy_list, proxy_index, px_op,
  use_proxy,        \* ProxyManager.use_proxy (USE_PROXY)
  px_round,         \* what get_proxy returned since the pool last changed
  \* SpecFetch
  proxies,          \* fetch_product: endpoint of the proxy in use, or NoUrl
  att,              \* the current attempt: response, reports made, outcome
  last_exc,         \* process_product: the exception being handled
  fe_product,       \* process_product: product_data, the normalized record
  it,               \* the current iteration: stats at its start, failures
  \* specifications of single functions
  pf                \* the call: its arguments and, once made, its result

vars_store == <<products, stats_table, retry_file, checkpoint, now>>
vars_run == <<pc, args, urls_to_process, total_urls, start_idx, i, stats,
              products_to_save, retries, db_open>>
vars_hist == <<visited, fetched, got, written, loaded, dl_start, exit_kind,
               fin>>
vars_db == <<db_hist>>
vars_bo == <<bo_m, bo_retries, bo_delay, bo_calls, bo_excs, bo_sleeps, bo_result>>
vars_px == <<proxy_list, proxy_index, px_op, use_proxy, px_round>>
vars_fe == <<proxies, att, last_exc, fe_product, it>>
vars == <<vars_store, vars_run, vars_hist, vars_db, vars_bo, vars_px, vars_fe,
          pf>>

(* ------------------------------ helpers -------------------------------- *)
Range(s) == {s[j] : j \in 1..Len(s)}

Min(a, b) == IF a < b THEN a ELSE b

Count(s, x) == Cardinality({j \in 1..Len(s) : s[j] = x})

\* sequences over S of length lo..hi
SeqsOf(S, lo, hi) == UNION {[1..n -> S] : n \in lo..hi}

(***************************************************************************)
(* ProductDatabase (database.py).  A document is a record with the fields  *)
(* of extract_product_data that matter here: sku and extracted_at.         *)
(***************************************************************************)

\* TinyDB Table.get(Product.sku == sku): doc_id of the first match, 0 if none
TableGet(table, sku) ==
  IF \E j \in 1..Len(table) : table[j].sku = sku
  THEN CHOOSE j \in 1..Len(table) :
         /\ table[j].sku = sku
         /\ \A k \in 1..(j-1) : table[k].sku # sku
  ELSE 0

\* TinyDB Table.update(fields, doc_ids=[id]): dict.update of the document
DocUpdate(doc, fields) ==
  [f \in (DOMAIN doc) \cup (DOMAIN fields) |->
     IF f \in DOMAIN fields THEN fields[f] ELSE doc[f]]

\* insert_product: new table and returned doc_id
InsertProduct(table, product) ==
  LET sku == product.sku
      existing == TableGet(table, sku)
  IN  IF sku = NoSku THEN [table |-> table, ret |-> -1]
      ELSE IF existing # 0
      THEN [table |-> [table EXCEPT ![existing] = DocUpdate(@, product)],
            ret |-> existing]
      ELSE [table |-> Append(table, product), ret |-> Len(table) + 1]

\* next((p for p in products if p.get("sku") == sku), {})
FirstWithSku(batch, sku) ==
  batch[CHOOSE j \in 1..Len(batch) :
          /\ batch[j].sku = sku
          /\ \A k \in 1..(j-1) : batch[k].sku # sku]

\* skus = [p.get("sku") for p in products if p.get("sku")]
BatchSkus(batch) ==
  LET keyed == SelectSeq(batch, LAMBDA p : p.sku # NoSku)
  IN  [j \in 1..Len(keyed) |-> keyed[j].sku]

\* to_insert: one element per occurrence of a SKU that is not stored yet
ToInsert(table, batch) ==
  LET fresh == SelectSeq(BatchSkus(batch), LAMBDA s : TableGet(table, s) = 0)
  IN  [j \in 1..Len(fresh) |-> FirstWithSku(batch, fresh[j])]

\* keys of to_update in dict insertion order (first occurrence of each doc_id)
RECURSIVE UpdateIds(_, _, _)
UpdateIds(table, skus, seen) ==
  IF skus = <<>> THEN <<>>
  ELSE LET id == TableGet(table, Head(skus))
       IN  IF id = 0 \/ id \in seen
           THEN UpdateIds(table, Tail(skus), seen)
           ELSE <<id>> \o UpdateIds(table, Tail(skus), seen \cup {id})

\* insert_products: new table and returned doc_ids
InsertProducts(table, batch) ==
  IF batch = <<>> THEN [table |-> table, ret |-> <<>>]
  ELSE
  LET skus == BatchSkus(batch)
      to_insert == ToInsert(table, batch)
      upd == UpdateIds(table, skus, {})
      updated == [j \in 1..Len(table) |->
                    IF j \in Range(upd)
                    THEN DocUpdate(table[j], FirstWithSku(batch, table[j].sku))
                    ELSE table[j]]
      new_ids == [j \in 1..Len(to_insert) |-> Len(table) + j]
  IN  [table |-> updated \o to_insert, ret |-> new_ids \o upd]

\* get_processed_skus
GetProcessedSkus(table) == {table[j].sku : j \in 1..Len(table)} \ {NoSku}


(***************************************************************************)
(* utils.py: dead-letter file and checkpoints.                             *)
(***************************************************************************)

\* save_to_retry that writes the new entry over the file
SaveToRetry_overwrite(file, item, reason, ts) ==
  [exists |-> TRUE,
   entries |-> <<[timestamp |-> ts, reason |-> reason, data |-> item]>>]

\* save_to_retry: the new content of data/retry.json
SaveToRetry(file, item, reason, ts) ==
  LET retry_data == IF file.exists THEN file.entries ELSE <<>>
      retry_item == [timestamp |-> ts, reason |-> reason, data |-> item]
  IN  [exists |-> TRUE, entries |-> Append(retry_data, retry_item)]

\* create_checkpoint: the new content of data/checkpoint_<type>.json
\* (progress_pct is kept as the exact quotient num/den; the code holds its
\* double-precision value)
CreateCheckpoint(current_position, total, ts) ==
  [exists |-> TRUE, timestamp |-> ts,
   current_position |-> current_position, total |-> total,
   progress_pct |-> IF total > 0
                    THEN [num |-> current_position * 100, den |-> total]
                    ELSE [num |-> 0, den |-> 1]]

(***************************************************************************)
(* sitemap_parser.py: the cached work list and the unprocessed filter.     *)
(***************************************************************************)
Url(sku) == 100 + sku

\* load_cached_urls: the content of data/product_urls.txt
CachedUrls == [k \in 1..MaxItems |-> [sku |-> k, url |-> Url(k)]]

\* a filter that forgets the processed SKUs
GetUnprocessedUrls_all(urls, processed_skus) ==
  SelectSeq(urls, LAMBDA u : u.sku # NoSku)

\* get_unprocessed_urls
GetUnprocessedUrls(urls, processed_skus) ==
  SelectSeq(urls, LAMBDA u : u.sku # NoSku /\ u.sku \notin processed_skus)

(***************************************************************************)
(* main.py: scrape_task.  main() never calls it with --sku (main.py:224),  *)
(* so args holds retry, batch_size, skip and limit.                        *)
(***************************************************************************)

\* main.py:97-107  work items rebuilt from the dead-letter entries
RetryUrls(file) ==
  LET keyed == SelectSeq(file.entries, LAMBDA e : e.data.sku # NoSku)
  IN  [j \in 1..Len(keyed) |-> [sku |-> keyed[j].data.sku, url |-> keyed[j].data.url]]

\* the limit applied before the skip
ApplySkipLimit_limitFirst(urls, skip, limit) ==
  LET limited == IF limit > 0 THEN SubSeq(urls, 1, Min(limit, Len(urls))) ELSE urls
  IN  IF skip > 0 THEN SubSeq(limited, skip + 1, Len(limited)) ELSE limited

\* main.py:116-119  urls_to_process[skip:][:limit]
ApplySkipLimit(urls, skip, limit) ==
  LET skipped == IF skip > 0 THEN SubSeq(urls, skip + 1, Len(urls)) ELSE urls
  IN  IF limit > 0 THEN SubSeq(skipped, 1, Min(limit, Len(skipped))) ELSE skipped

\* a loop that ignores the checkpoint
StartIdx_fromZero(ckpt, retry) == 0

\* main.py:124-127  the position the loop starts at
StartIdx(ckpt, retry) ==
  IF ckpt.exists /\ ~retry THEN ckpt.current_position ELSE 0

\* a final position that forgets the items skipped by the resume
FinalPosition_noSkipped(st) == st.processed + st.failed

\* main.py:192  the position of the final checkpoint
FinalPosition(st) == st.processed + st.failed + st.skipped

\* a retry policy that gives up one attempt early
Exhausted_early(n, max_retries) == n >= max_retries

\* utils.py:131,137  the retry policy gives up once retries exceeds max_retries
Exhausted(n, max_retries) == n > max_retries

LoopPcs == {"loop", "fetch", "flush", "ckpt"}
FinPcs == {"fin_flush", "fin_stats", "fin_ckpt", "fin_close"}
\* str(e) of the exception a fetch ends with (product_scraper.py:217,222)
Exceptions == {"HTTPError", "ValueError"}
\* the reasons recorded by runs of scrape_task
FetchErrors == {"HTTPError"}
\* product_scraper.py:250  the record's key is the SKU field of the response
RespSkus(sku) == {sku, NoSku}

NoArgs == [retry |-> FALSE, batch_size |-> 1, skip |-> 0, limit |-> 0]
NoStats == [total |-> 0, processed |-> 0, failed |-> 0, skipped |-> 0]

\* the variables of the other specifications stay as they are
RunFrame == UNCHANGED <<vars_db, vars_bo, vars_px, vars_fe, pf>>

InitStore ==
  /\ products = <<>>
  /\ stats_table = <<>>
  /\ retry_file = NoFile
  /\ checkpoint = NoFile
  /\ now = 0

InitRun ==
  /\ pc = "idle"
  /\ args = NoArgs
  /\ urls_to_process = <<>>
  /\ total_urls = 0
  /\ start_idx = 0
  /\ i = 0
  /\ stats = NoStats
  /\ products_to_save = <<>>
  /\ retries = 0
  /\ db_open = FALSE

InitHist ==
  /\ visited = <<>>
  /\ fetched = <<>>
  /\ got = <<>>
  /\ written = <<>>
  /\ loaded = NoFile
  /\ dl_start = NoFile
  /\ exit_kind = "none"
  /\ fin = {}

\* main.py:90-95  --retry without data/retry.json: early return, db left open
RetryNoFile ==
  /\ pc \in {"idle", "done"}
  /\ now < MaxRuns
  /\ ~retry_file.exists
  /\ now' = now + 1
  /\ pc' = "idle"
  /\ args' = [NoArgs EXCEPT !.retry = TRUE]
  /\ urls_to_process' = <<>> /\ total_urls' = 0 /\ start_idx' = 0 /\ i' = 0
  /\ stats' = NoStats /\ products_to_save' = <<>> /\ retries' = 0
  /\ db_open' = TRUE
  /\ visited' = <<>> /\ fetched' = <<>> /\ got' = <<>> /\ written' = <<>>
  /\ loaded' = NoFile /\ dl_start' = NoFile /\ exit_kind' = "none" /\ fin' = {}
  /\ UNCHANGED <<products, stats_table, retry_file, checkpoint>>
  /\ RunFrame

\* main.py:65-141  scrape_task up to the loop
StartRun(retry, batch_size, skip, limit) ==
  /\ pc \in {"idle", "done"}
  /\ now < MaxRuns
  /\ retry => retry_file.exists
  /\ LET processed_skus == GetProcessedSkus(products)
         all == IF retry THEN RetryUrls(retry_file)
                ELSE GetUnprocessedUrls(CachedUrls, processed_skus)
         todo == ApplySkipLimit(all, skip, limit)
         first == StartIdx(checkpoint, retry)
     IN  /\ urls_to_process' = todo
         /\ total_urls' = Len(all)
         /\ start_idx' = first
         /\ i' = first
         /\ stats' = [total |-> Len(all), processed |-> 0, failed |-> 0,
                      skipped |-> first]
  /\ now' = now + 1
  /\ pc' = "loop"
  /\ args' = [retry |-> retry, batch_size |-> batch_size, skip |-> skip,
              limit |-> limit]
  /\ products_to_save' = <<>> /\ retries' = 0
  /\ db_open' = TRUE
  /\ visited' = <<>> /\ fetched' = <<>> /\ got' = <<>> /\ written' = <<>>
  /\ loaded' = checkpoint /\ dl_start' = retry_file
  /\ exit_kind' = "none" /\ fin' = {}
  /\ UNCHANGED <<products, stats_table, retry_file, checkpoint>>
  /\ RunFrame

\* main.py:144-155  next item of urls_to_process[start_idx:]
LoopNext ==
  /\ pc = "loop"
  /\ i < Len(urls_to_process)
  /\ visited' = Append(visited, i)
  /\ LET url_info == urls_to_process[i + 1]
     IN  IF url_info.sku = NoSku
         THEN /\ stats' = [stats EXCEPT !.skipped = @ + 1]
              /\ i' = i + 1
              /\ UNCHANGED <<pc, fetched>>
         ELSE /\ pc' = "fetch"
              /\ fetched' = Append(fetched, url_info.sku)
              /\ UNCHANGED <<stats, i>>
  /\ retries' = 0
  /\ UNCHANGED <<vars_store, args, urls_to_process, total_urls, start_idx,
                 products_to_save, db_open, written, got, loaded, dl_start,
                 exit_kind, fin>>
  /\ RunFrame

\* main.py:144  the loop is exhausted
LoopExhausted ==
  /\ pc = "loop"
  /\ i >= Len(urls_to_process)
  /\ pc' = "fin_flush"
  /\ exit_kind' = "exhausted"
  /\ UNCHANGED <<vars_store, args, urls_to_process, total_urls, start_idx, i,
                 stats, products_to_save, retries, db_open, visited,
                 fetched, written, got, loaded, dl_start, fin>>
  /\ RunFrame

\* product_scraper.py:149-224, utils.py:134-151  an attempt fails, retries remain
FetchRetry(e) ==
  /\ pc = "fetch"
  /\ ~Exhausted(retries + 1, FetchMaxRetries)
  /\ retries' = retries + 1
  /\ UNCHANGED <<vars_store, pc, args, urls_to_process, total_urls, start_idx,
                 i, stats, products_to_save, db_open, vars_hist>>
  /\ RunFrame

\* utils.py:137-139, product_scraper.py:306-309, main.py:160-161
\* the last attempt fails: dead letter, process_product returns None
FetchFailed(e) ==
  /\ pc = "fetch"
  /\ Exhausted(retries + 1, FetchMaxRetries)
  /\ LET url_info == urls_to_process[i + 1]
     IN  retry_file' = SaveToRetry(retry_file,
                         [sku |-> url_info.sku, url |-> url_info.url], e, now)
  /\ retries' = 0
  /\ stats' = [stats EXCEPT !.failed = @ + 1]
  /\ pc' = "flush"
  /\ UNCHANGED <<products, stats_table, checkpoint, now, args, urls_to_process,
                 total_urls, start_idx, i, products_to_save, db_open, vars_hist>>
  /\ RunFrame

\* product_scraper.py:226-268,298-304, main.py:157-159  an attempt succeeds
FetchOk(resp_sku) ==
  /\ pc = "fetch"
  /\ resp_sku \in RespSkus(urls_to_process[i + 1].sku)
  /\ LET product_data == [sku |-> resp_sku, extracted_at |-> now]
     IN  /\ products_to_save' = Append(products_to_save, product_data)
         /\ got' = Append(got, product_data)
  /\ stats' = [stats EXCEPT !.processed = @ + 1]
  /\ retries' = 0
  /\ pc' = "flush"
  /\ UNCHANGED <<vars_store, args, urls_to_process, total_urls, start_idx, i,
                 db_open, visited, fetched, written, loaded, dl_start,
                 exit_kind, fin>>
  /\ RunFrame

\* main.py:163-166  flush the batch once it holds batch_size records
Flush ==
  /\ pc = "flush"
  /\ IF Len(products_to_save) >= args.batch_size
     THEN /\ products' = InsertProducts(products, products_to_save).table
          /\ products_to_save' = <<>>
     ELSE UNCHANGED <<products, products_to_save>>
  /\ pc' = "ckpt"
  /\ UNCHANGED <<stats_table, retry_file, checkpoint, now, args,
                 urls_to_process, total_urls, start_idx, i, stats, retries,
                 db_open, vars_hist>>
  /\ RunFrame

\* main.py:168-174  periodic checkpoint, then the next iteration
Checkpoint ==
  /\ pc = "ckpt"
  /\ IF i % CheckpointEvery = 0
     THEN /\ checkpoint' = CreateCheckpoint(i, Len(urls_to_process), now)
          /\ written' = Append(written, i)
     ELSE UNCHANGED <<checkpoint, written>>
  /\ i' = i + 1
  /\ pc' = "loop"
  /\ UNCHANGED <<products, stats_table, retry_file, now, args, urls_to_process,
                 total_urls, start_idx, stats, products_to_save, retries,
                 db_open, visited, fetched, got, loaded, dl_start,
                 exit_kind, fin>>
  /\ RunFrame

\* an interrupt that leaves scrape_task without its finally block
Interrupt_noFinally ==
  /\ pc \in {"loop", "fetch", "flush", "ckpt"}
  /\ pc' = "done"
  /\ exit_kind' = "interrupt"
  /\ UNCHANGED <<vars_store, args, urls_to_process, total_urls, start_idx, i,
                 stats, products_to_save, retries, db_open, visited, fetched,
                 got, written, loaded, dl_start, fin>>
  /\ UNCHANGED <<vars_db, vars_bo, vars_px, vars_fe, pf>>

\* main.py:180-196  KeyboardInterrupt anywhere in the loop.  The handler only
\* logs, so any other BaseException leaving the loop differs from this step
\* only in propagating after the finally block.  An Exception raised inside
\* an iteration cannot leave the loop (main.py:176-178); with a working local
\* disk none is raised there, because process_product catches the fetch
\* errors itself (product_scraper.py:305-309).
Interrupt ==
  /\ pc \in LoopPcs
  /\ pc' = "fin_flush"
  /\ exit_kind' = "interrupt"
  /\ UNCHANGED <<vars_store, args, urls_to_process, total_urls, start_idx, i,
                 stats, products_to_save, retries, db_open, visited,
                 fetched, written, got, loaded, dl_start, fin>>
  /\ RunFrame

\* main.py:184-186  finally: save any remaining products
FinFlush ==
  /\ pc = "fin_flush"
  /\ products' = IF products_to_save # <<>>
                 THEN InsertProducts(products, products_to_save).table
                 ELSE products
  /\ fin' = fin \cup {"flush"}
  /\ pc' = "fin_stats"
  /\ UNCHANGED <<stats_table, retry_file, checkpoint, now, args,
                 urls_to_process, total_urls, start_idx, i, stats,
                 products_to_save, retries, db_open, visited,
                 fetched, written, got, loaded, dl_start, exit_kind>>
  /\ RunFrame

\* main.py:188-189, database.py:140-145  finally: save statistics
FinStats ==
  /\ pc = "fin_stats"
  /\ stats_table' = Append(stats_table, [stats |-> stats, timestamp |-> now])
  /\ fin' = fin \cup {"stats"}
  /\ pc' = "fin_ckpt"
  /\ UNCHANGED <<products, retry_file, checkpoint, now, args, urls_to_process,
                 total_urls, start_idx, i, stats, products_to_save, retries,
                 db_open, visited, fetched, written, got, loaded,
                 dl_start, exit_kind>>
  /\ RunFrame

\* main.py:191-193  finally: final checkpoint
FinCheckpoint ==
  /\ pc = "fin_ckpt"
  /\ checkpoint' = CreateCheckpoint(FinalPosition(stats), total_urls, now)
  /\ written' = Append(written, FinalPosition(stats))
  /\ fin' = fin \cup {"checkpoint"}
  /\ pc' = "fin_close"
  /\ UNCHANGED <<products, stats_table, retry_file, now, args, urls_to_process,
                 total_urls, start_idx, i, stats, products_to_save, retries,
                 db_open, visited, fetched, got, loaded, dl_start,
                 exit_kind>>
  /\ RunFrame

\* main.py:195-196, database.py:153-158  finally: close the database
FinClose ==
  /\ pc = "fin_close"
  /\ db_open' = FALSE
  /\ fin' = fin \cup {"close"}
  /\ pc' = "done"
  /\ UNCHANGED <<vars_store, args, urls_to_process, total_urls, start_idx, i,
                 stats, products_to_save, retries, visited, fetched,
                 written, got, loaded, dl_start, exit_kind>>
  /\ RunFrame

Next ==
  \/ RetryNoFile
  \/ \E retry \in BOOLEAN, batch_size \in 1..MaxBatch, skip \in 0..MaxSkip,
        limit \in 0..MaxLimit : StartRun(retry, batch_size, skip, limit)
  \/ LoopNext
  \/ LoopExhausted
  \/ \E e \in FetchErrors : FetchRetry(e)
  \/ \E e \in FetchErrors : FetchFailed(e)
  \/ \E resp_sku \in 0..MaxItems : FetchOk(resp_sku)
  \/ Flush
  \/ Checkpoint
  \/ Interrupt
  \/ FinFlush
  \/ FinStats
  \/ FinCheckpoint
  \/ FinClose

InitDbIdle == db_hist = <<>>
InitBoIdle ==
  /\ bo_m = 0 /\ bo_retries = 0 /\ bo_delay = 0 /\ bo_calls = 0
  /\ bo_excs = <<>> /\ bo_sleeps = <<>> /\ bo_result = [kind |-> "idle"]
InitPxIdle ==
  /\ proxy_list = <<>> /\ proxy_index = 0 /\ px_op = [op |-> "none"]
  /\ use_proxy = FALSE /\ px_round = <<>>

NoAttempt == [status |-> 0, has_data |-> FALSE, reports |-> <<>>, outcome |-> "none"]
NoProduct == [sku |-> NoSku, extracted_at |-> 0]
InitFeIdle ==
  /\ proxies = NoUrl
  /\ att = NoAttempt
  /\ last_exc = "none"
  /\ fe_product = NoProduct
  /\ it = [start |-> NoStats, excs |-> {}]

InitPfIdle == pf = [op |-> "idle"]

Init ==
  /\ InitStore /\ InitRun /\ InitHist /\ InitDbIdle /\ InitBoIdle /\ InitPxIdle
  /\ InitFeIdle /\ InitPfIdle

Spec == Init /\ [][Next]_vars


(***************************************************************************)
(* SpecDb: insert_product and insert_products called in any order on one   *)
(* ProductDatabase.  db_hist keeps the last two calls.                      *)
(***************************************************************************)
DbRecords == [sku : 0..MaxDbSku, extracted_at : 1..MaxStamp]

LastTwo(q) == IF Len(q) > 2 THEN SubSeq(q, Len(q) - 1, Len(q)) ELSE q

DbFrame ==
  UNCHANGED <<stats_table, retry_file, checkpoint, now, vars_run, vars_hist,
              vars_bo, vars_px, vars_fe, pf>>

\* database.py:41-66
DbInsertProduct(product) ==
  /\ Len(products) < MaxDocs
  /\ LET r == InsertProduct(products, product)
     IN  /\ products' = r.table
         /\ db_hist' = LastTwo(Append(db_hist,
                         [op |-> "insert_product", arg |-> product, ret |-> r.ret]))
  /\ DbFrame

\* database.py:68-104
DbInsertProducts(batch) ==
  /\ Len(products) + Len(batch) <= MaxDocs
  /\ LET r == InsertProducts(products, batch)
     IN  /\ products' = r.table
         /\ db_hist' = LastTwo(Append(db_hist,
                         [op |-> "insert_products", arg |-> batch, ret |-> r.ret]))
  /\ DbFrame

NextDb ==
  \/ \E product \in DbRecords : DbInsertProduct(product)
  \/ \E batch \in SeqsOf(DbRecords, 0, MaxDbBatch) : DbInsertProducts(batch)

SpecDb == Init /\ [][NextDb]_vars

DocsWithSku(sku) == {j \in 1..Len(products) : products[j].sku = sku}

\* C4 (as claimed): storage never holds two product records with one key.
C4_UniqueKeys ==
  \A j1, j2 \in 1..Len(products) :
    products[j1].sku = products[j2].sku => j1 = j2

\* C5 (as claimed): after insert_product(r1) and insert_product(r2) with one
\* key there is exactly one record under the key, it has the field values of
\* r2, and both calls returned the same doc_id.
C5_UpsertTwice ==
  (/\ Len(db_hist) = 2
   /\ db_hist[1].op = "insert_product" /\ db_hist[2].op = "insert_product"
   /\ db_hist[1].arg.sku = db_hist[2].arg.sku
   /\ db_hist[2].arg.sku # NoSku)
  => LET r2 == db_hist[2].arg
         id == TableGet(products, r2.sku)
     IN  /\ Cardinality(DocsWithSku(r2.sku)) = 1
         /\ \A f \in DOMAIN r2 : products[id][f] = r2[f]
         /\ db_hist[1].ret = db_hist[2].ret

(***************************************************************************)
(* SpecBackoff: one call of a function wrapped by exponential_backoff      *)
(* (utils.py:120-154) with max_retries = bo_m, initial_delay = 1.0 and     *)
(* factor = 2.0.  Delays are in hundredths of a second.                    *)
(***************************************************************************)
\* utils.py:120  initial_delay = 1.0
InitialDelay == 100
\* utils.py:121  factor = 2.0
Factor == 2

\* sitemap_parser.py:25  @exponential_backoff(max_retries=3) on fetch_sitemap
SitemapMaxRetries == 3
\* sitemap_parser.py:188-194  _generate_fallback_sitemap
known_ids == <<553975>>
start_id == 100000
end_id == 600000
step == 10000
\* utils.py:143  delay * (0.8 + random.random() * 0.4): percentages sampled
JitterPcts == {80, 100, 119}
Values == {"v"}

BoFrame ==
  UNCHANGED <<vars_store, vars_run, vars_hist, vars_db, vars_px, vars_fe, pf>>

InitBackoff ==
  /\ bo_m \in 0..MaxM
  /\ bo_retries = 0
  /\ bo_delay = InitialDelay
  /\ bo_calls = 0
  /\ bo_excs = <<>>
  /\ bo_sleeps = <<>>
  /\ bo_result = [kind |-> "running"]

\* utils.py:131-133  the call returns
BoReturn(v) ==
  /\ bo_result.kind = "running"
  /\ bo_retries <= bo_m
  /\ bo_calls' = bo_calls + 1
  /\ bo_result' = [kind |-> "returned", value |-> v]
  /\ UNCHANGED <<bo_m, bo_retries, bo_delay, bo_excs, bo_sleeps>>
  /\ BoFrame

\* a back-off whose delay stays the same
NextDelay_fixed(delay) == delay

\* utils.py:148  delay *= factor
NextDelay(delay) == delay * Factor

\* utils.py:134-151  the call raises e and retries remain: sleep, longer delay
BoRetry(e, pct) ==
  /\ bo_result.kind = "running"
  /\ bo_retries <= bo_m
  /\ ~Exhausted(bo_retries + 1, bo_m)
  /\ bo_calls' = bo_calls + 1
  /\ bo_excs' = Append(bo_excs, e)
  /\ bo_retries' = bo_retries + 1
  /\ bo_sleeps' = Append(bo_sleeps, (bo_delay * pct) \div 100)
  /\ bo_delay' = NextDelay(bo_delay)
  /\ UNCHANGED <<bo_m, bo_result>>
  /\ BoFrame

\* utils.py:134-139  the call raises e and no retry remains: re-raise
BoGiveUp(e) ==
  /\ bo_result.kind = "running"
  /\ bo_retries <= bo_m
  /\ Exhausted(bo_retries + 1, bo_m)
  /\ bo_calls' = bo_calls + 1
  /\ bo_excs' = Append(bo_excs, e)
  /\ bo_retries' = bo_retries + 1
  /\ bo_result' = [kind |-> "raised", exc |-> e]
  /\ UNCHANGED <<bo_m, bo_delay, bo_sleeps>>
  /\ BoFrame

NextBackoff ==
  \/ \E v \in Values : BoReturn(v)
  \/ \E e \in Exceptions, pct \in JitterPcts : BoRetry(e, pct)
  \/ \E e \in Exceptions : BoGiveUp(e)

InitSpecBackoff ==
  /\ InitStore /\ InitRun /\ InitHist /\ InitDbIdle /\ InitPxIdle /\ InitBackoff
  /\ InitFeIdle /\ InitPfIdle

SpecBackoff == InitSpecBackoff /\ [][NextBackoff]_vars

\* C8: a wrapped function that fails on every attempt is called max_retries + 1
\* times and the caller gets the exception of the function itself; one that
\* succeeds on attempt k <= max_retries + 1 is called k times and its value is
\* returned.
C8_Attempts ==
  /\ bo_calls <= bo_m + 1
  /\ bo_result.kind = "raised" =>
       /\ bo_calls = bo_m + 1
       /\ Len(bo_excs) = bo_m + 1
       /\ bo_result.exc = bo_excs[bo_m + 1]
  /\ bo_result.kind = "returned" =>
       /\ bo_calls = Len(bo_excs) + 1
       /\ bo_result.value \in Values
  /\ bo_result.kind = "running" => bo_calls = Len(bo_excs) /\ bo_calls <= bo_m

C8_Witness ==
  /\ bo_m = 3 /\ bo_result.kind = "raised" /\ bo_calls = 4
  /\ bo_excs = <<"HTTPError", "HTTPError", "HTTPError", "HTTPError">>

(***************************************************************************)
(* SpecProxy: the operations of ProxyManager with PROXY_TYPE=free, called  *)
(* in any order, with USE_PROXY true or false.  A pool entry is its url    *)
(* and fail_count; endpoints are 1..MaxUrl.                                *)
(***************************************************************************)
PxFrame ==
  UNCHANGED <<vars_store, vars_run, vars_hist, vars_db, vars_bo, vars_fe, pf>>

\* proxy_manager.py:71-81  the proxies FreeProxy delivered and that validated;
\* one refresh is taken to deliver pairwise distinct endpoints
Pools ==
  {q \in SeqsOf(1..MaxUrl, 0, MaxPool) :
     \A a, b \in 1..Len(q) : q[a] = q[b] => a = b}

\* proxy_manager.py:75-79
FreshPool(new_proxies) ==
  [j \in 1..Len(new_proxies) |-> [url |-> new_proxies[j], fail_count |-> 0]]

\* proxy_manager.py:24-34  __init__ refreshes once if USE_PROXY is true
InitProxy ==
  /\ use_proxy \in BOOLEAN
  /\ \E new_proxies \in Pools :
       proxy_list = IF use_proxy THEN FreshPool(new_proxies) ELSE <<>>
  /\ proxy_index = 0
  /\ px_op = [op |-> "init"]
  /\ px_round = <<>>

\* first index of the entry with this url, 0 if none (proxy_manager.py:204-205)
PoolFind(pool, url) ==
  IF \E j \in 1..Len(pool) : pool[j].url = url
  THEN CHOOSE j \in 1..Len(pool) :
         /\ pool[j].url = url
         /\ \A k \in 1..(j - 1) : pool[k].url # url
  ELSE 0

RemoveAt(q, j) == SubSeq(q, 1, j - 1) \o SubSeq(q, j + 1, Len(q))

\* the last n elements of q
LastN(q, n) == IF Len(q) <= n THEN q ELSE SubSeq(q, Len(q) - n + 1, Len(q))

\* a cursor that get_proxy leaves where it is
NextIndex_stay(index, n) == index

\* proxy_manager.py:147  the cursor after get_proxy took the entry at index
NextIndex(index, n) == (index + 1) % n

\* proxy_manager.py:116-117  get_proxy with USE_PROXY false
PxGetProxyDisabled ==
  /\ ~use_proxy
  /\ px_op' = [op |-> "get_proxy", url |-> NoUrl]
  /\ UNCHANGED <<proxy_list, proxy_index, use_proxy, px_round>>
  /\ PxFrame

\* proxy_manager.py:135-155 reached from get_proxy without a refresh
PxGetProxy ==
  /\ use_proxy
  /\ proxy_list # <<>>
  /\ px_op' = [op |-> "get_proxy", url |-> proxy_list[proxy_index + 1].url]
  /\ proxy_index' = NextIndex(proxy_index, Len(proxy_list))
  /\ px_round' = LastN(Append(px_round, proxy_list[proxy_index + 1].url),
                       Len(proxy_list))
  /\ UNCHANGED <<proxy_list, use_proxy>>
  /\ PxFrame

\* proxy_manager.py:119-125,61-90  get_proxy when the pool is empty or the
\* refresh interval has elapsed: refresh, then take the next proxy
PxGetProxyRefresh(new_proxies) ==
  LET pool == IF new_proxies # <<>> THEN FreshPool(new_proxies) ELSE proxy_list
      index == IF new_proxies # <<>> THEN 0 ELSE proxy_index
      round == IF new_proxies # <<>> THEN <<>> ELSE px_round
  IN  /\ use_proxy
      /\ proxy_list' = pool
      /\ IF pool = <<>>
         THEN /\ px_op' = [op |-> "get_proxy_refresh", url |-> NoUrl]
              /\ proxy_index' = index
              /\ px_round' = round
         ELSE /\ px_op' = [op |-> "get_proxy_refresh", url |-> pool[index + 1].url]
              /\ proxy_index' = NextIndex(index, Len(pool))
              /\ px_round' = LastN(Append(round, pool[index + 1].url), Len(pool))
      /\ UNCHANGED use_proxy
      /\ PxFrame

\* a report_success that leaves the counter as it is
AfterReportSuccess_keep(pool, url) == pool

\* proxy_manager.py:191-195  the pool after report_success(url)
AfterReportSuccess(pool, url) ==
  LET j == PoolFind(pool, url)
  IN  IF j = 0 THEN pool ELSE [pool EXCEPT ![j].fail_count = 0]

\* proxy_manager.py:184-195
PxReportSuccess(url) ==
  /\ proxy_list' = IF use_proxy THEN AfterReportSuccess(proxy_list, url)
                   ELSE proxy_list
  /\ px_op' = [op |-> "report_success", url |-> url]
  /\ UNCHANGED <<proxy_index, use_proxy, px_round>>
  /\ PxFrame

\* an eviction that leaves the cursor where it is
CursorAfterEviction_keep(j0, index) == index

\* proxy_manager.py:212-213  the cursor after the entry at 0-based index j0 went
CursorAfterEviction(j0, index) ==
  IF j0 <= index /\ index > 0 THEN index - 1 ELSE index

\* proxy_manager.py:204-214  pool and cursor after report_failure(url)
AfterReportFailure(pool, index, url) ==
  LET j == PoolFind(pool, url)
  IN  IF j = 0
      THEN [list |-> pool, index |-> index]
      ELSE IF pool[j].fail_count + 1 >= EvictThreshold
      THEN [list |-> RemoveAt(pool, j),
            index |-> CursorAfterEviction(j - 1, index)]
      ELSE [list |-> [pool EXCEPT ![j].fail_count = @ + 1], index |-> index]

\* proxy_manager.py:197-214
PxReportFailure(url) ==
  /\ LET r == IF use_proxy THEN AfterReportFailure(proxy_list, proxy_index, url)
              ELSE [list |-> proxy_list, index |-> proxy_index]
     IN  /\ proxy_list' = r.list /\ proxy_index' = r.index
         /\ px_round' = IF Len(r.list) < Len(proxy_list) THEN <<>> ELSE px_round
  /\ px_op' = [op |-> "report_failure", url |-> url]
  /\ UNCHANGED use_proxy
  /\ PxFrame

NextProxy ==
  \/ PxGetProxyDisabled
  \/ PxGetProxy
  \/ \E new_proxies \in Pools : PxGetProxyRefresh(new_proxies)
  \/ \E url \in 1..MaxUrl : PxReportSuccess(url)
  \/ \E url \in 1..MaxUrl : PxReportFailure(url)

InitSpecProxy ==
  /\ InitStore /\ InitRun /\ InitHist /\ InitDbIdle /\ InitBoIdle /\ InitProxy
  /\ InitFeIdle /\ InitPfIdle

SpecProxy == InitSpecProxy /\ [][NextProxy]_vars

\* C9 (as claimed): when report_failure evicts an entry, its endpoint is gone
\* from the pool, and the cursor points at the entry that was next in the
\* round before the eviction (the successor of the evicted entry if the cursor
\* pointed at it), so no remaining entry is skipped or repeated.
C9_EvictionClaim ==
  [][(px_op'.op = "report_failure" /\ Len(proxy_list') < Len(proxy_list))
      => LET j0 == PoolFind(proxy_list, px_op'.url) - 1
         IN  /\ PoolFind(proxy_list', px_op'.url) = 0
             /\ proxy_list' # <<>> =>
                  proxy_index' = IF j0 < proxy_index THEN proxy_index - 1
                                 ELSE proxy_index % Len(proxy_list')]_vars

(***************************************************************************)
(* SpecFetch: one run of the loop of scrape_task (main.py:143-178) with    *)
(* every attempt of fetch_product taken step by step: get_proxy, the       *)
(* request, the report to the ProxyManager, the check of the payload, then *)
(* extract_product_data and save_product_json in process_product.  The     *)
(* wrapper locals of exponential_backoff are bo_retries, bo_delay,         *)
(* bo_calls and bo_excs.  The refresh that get_proxy makes when the        *)
(* refresh interval has elapsed is left to SpecProxy.                      *)
(***************************************************************************)
\* requests.post raises before any response (product_scraper.py:193-200)
SendErrors == {"Timeout"}
\* response.status_code
Statuses == {200, 500}

\* proxies validated by a refresh during the run
FetchRefreshes == {[j \in 1..n |-> j] : n \in 0..MaxFetchPool}

\* a fetch that takes any body of a 200 response
AttemptOutcome_noCheck(status, has_data) ==
  IF status # 200 THEN "HTTPError" ELSE "ok"

\* product_scraper.py:217-224  raise_for_status, then the check for "data"
AttemptOutcome(status, has_data) ==
  IF status # 200 THEN "HTTPError"
  ELSE IF ~has_data THEN "ValueError"
  ELSE "ok"

\* product_scraper.py:210-214  the report made once the response is there
ReportResponse(pool, index, url, status) ==
  IF url = NoUrl
  THEN [list |-> pool, index |-> index, reports |-> <<>>]
  ELSE IF status = 200
  THEN [list |-> AfterReportSuccess(pool, url), index |-> index,
        reports |-> <<[op |-> "report_success", url |-> url]>>]
  ELSE LET r == AfterReportFailure(pool, index, url)
       IN  [list |-> r.list, index |-> r.index,
            reports |-> <<[op |-> "report_failure", url |-> url]>>]

\* a failure counted twice
CountFailure_twice(st) == [st EXCEPT !.failed = @ + 2]

\* main.py:160-161  stats["failed"] += 1
CountFailure(st) == [st EXCEPT !.failed = @ + 1]

\* never written by the loop
FeFrame ==
  UNCHANGED <<stats_table, now, args, urls_to_process, total_urls, start_idx,
              retries, db_open, fetched, got, loaded, dl_start, exit_kind,
              fin, vars_db, bo_m, bo_sleeps, bo_result, px_op, use_proxy,
              px_round, pf>>

InitSpecFetch ==
  /\ InitStore /\ InitHist /\ InitDbIdle /\ InitFeIdle /\ InitPfIdle
  /\ pc = "loop"
  /\ \E batch_size \in 1..MaxBatch : args = [NoArgs EXCEPT !.batch_size = batch_size]
  /\ \E n \in 1..MaxFetchItems : urls_to_process = SubSeq(CachedUrls, 1, n)
  /\ total_urls = Len(urls_to_process)
  /\ start_idx = 0 /\ i = 0
  /\ stats = [NoStats EXCEPT !.total = total_urls]
  /\ products_to_save = <<>> /\ retries = 0 /\ db_open = TRUE
  /\ bo_m = FetchMaxRetries /\ bo_retries = 0 /\ bo_delay = InitialDelay
  /\ bo_calls = 0 /\ bo_excs = <<>> /\ bo_sleeps = <<>>
  /\ bo_result = [kind |-> "idle"]
  /\ \E new_proxies \in FetchRefreshes : proxy_list = FreshPool(new_proxies)
  /\ proxy_index = 0
  /\ px_op = [op |-> "init"]
  /\ use_proxy = TRUE /\ px_round = <<>>

\* main.py:144-155, utils.py:128-129  next item: process_product calls the
\* wrapped fetch_product
FeLoopNext ==
  /\ pc = "loop"
  /\ i < Len(urls_to_process)
  /\ visited' = Append(visited, i)
  /\ pc' = "acquire"
  /\ bo_retries' = 0 /\ bo_delay' = InitialDelay /\ bo_calls' = 0
  /\ bo_excs' = <<>>
  /\ it' = [start |-> stats, excs |-> {}]
  /\ att' = NoAttempt /\ proxies' = NoUrl /\ last_exc' = "none"
  /\ fe_product' = NoProduct
  /\ UNCHANGED <<products, retry_file, checkpoint, i, stats, products_to_save,
                 written, proxy_list, proxy_index>>
  /\ FeFrame

\* utils.py:131-133, product_scraper.py:165, proxy_manager.py:135-155
\* an attempt starts: get_proxy on a pool that holds proxies
FeAcquire ==
  /\ pc = "acquire"
  /\ proxy_list # <<>>
  /\ proxies' = proxy_list[proxy_index + 1].url
  /\ proxy_index' = NextIndex(proxy_index, Len(proxy_list))
  /\ bo_calls' = bo_calls + 1
  /\ att' = NoAttempt
  /\ pc' = "send"
  /\ UNCHANGED <<products, retry_file, checkpoint, i, stats, products_to_save,
                 visited, written, bo_retries, bo_delay, bo_excs, proxy_list,
                 last_exc, fe_product, it>>
  /\ FeFrame

\* proxy_manager.py:119-125,61-90  get_proxy on an empty pool refreshes first
FeAcquireRefresh(new_proxies) ==
  /\ pc = "acquire"
  /\ proxy_list = <<>>
  /\ LET pool == IF new_proxies # <<>> THEN FreshPool(new_proxies) ELSE proxy_list
         index == IF new_proxies # <<>> THEN 0 ELSE proxy_index
     IN  /\ proxy_list' = pool
         /\ IF pool = <<>>
            THEN proxies' = NoUrl /\ proxy_index' = index
            ELSE /\ proxies' = pool[index + 1].url
                 /\ proxy_index' = NextIndex(index, Len(pool))
  /\ bo_calls' = bo_calls + 1
  /\ att' = NoAttempt
  /\ pc' = "send"
  /\ UNCHANGED <<products, retry_file, checkpoint, i, stats, products_to_save,
                 visited, written, bo_retries, bo_delay, bo_excs, last_exc,
                 fe_product, it>>
  /\ FeFrame

\* utils.py:134-151  the attempt raised e: give up (the exception reaches
\* process_product) or back off and try again
FeAttemptFailed(e) ==
  /\ bo_excs' = Append(bo_excs, e)
  /\ bo_retries' = bo_retries + 1
  /\ IF Exhausted(bo_retries + 1, bo_m)
     THEN /\ pc' = "dead_letter"
          /\ last_exc' = e
          /\ it' = [it EXCEPT !.excs = @ \cup {"fetch"}]
          /\ UNCHANGED bo_delay
     ELSE /\ pc' = "acquire"
          /\ bo_delay' = bo_delay * Factor
          /\ UNCHANGED <<last_exc, it>>

\* product_scraper.py:193-200  requests.post raises
FeSendRaises(e) ==
  /\ pc = "send"
  /\ att' = [att EXCEPT !.outcome = e]
  /\ FeAttemptFailed(e)
  /\ UNCHANGED <<products, retry_file, checkpoint, i, stats, products_to_save,
                 visited, written, bo_calls, proxy_list, proxy_index, proxies,
                 fe_product>>
  /\ FeFrame

\* product_scraper.py:202-224  a response arrives
FeResponse(status, has_data) ==
  /\ pc = "send"
  /\ status # 200 => ~has_data
  /\ LET r == ReportResponse(proxy_list, proxy_index, proxies, status)
         outcome == AttemptOutcome(status, has_data)
     IN  /\ proxy_list' = r.list
         /\ proxy_index' = r.index
         /\ att' = [status |-> status, has_data |-> has_data,
                    reports |-> r.reports, outcome |-> outcome]
         /\ IF outcome = "ok"
            THEN /\ pc' = "normalize"
                 /\ UNCHANGED <<bo_retries, bo_delay, bo_excs, last_exc, it>>
            ELSE FeAttemptFailed(outcome)
  /\ UNCHANGED <<products, retry_file, checkpoint, i, stats, products_to_save,
                 visited, written, bo_calls, proxies, fe_product>>
  /\ FeFrame

\* product_scraper.py:226-268,298  extract_product_data
FeNormalize(resp_sku) ==
  /\ pc = "normalize"
  /\ resp_sku \in RespSkus(urls_to_process[i + 1].sku)
  /\ fe_product' = [sku |-> resp_sku, extracted_at |-> now]
  /\ pc' = "save_json"
  /\ UNCHANGED <<products, retry_file, checkpoint, i, stats, products_to_save,
                 visited, written, bo_retries, bo_delay, bo_calls, bo_excs,
                 proxy_list, proxy_index, proxies, att, last_exc, it>>
  /\ FeFrame

\* product_scraper.py:230-232,306  extract_product_data raises: "data" is no
\* object (response_data.get("data", {}).get on None or a list)
FeNormalizeRaises ==
  /\ pc = "normalize"
  /\ pc' = "dead_letter"
  /\ last_exc' = "AttributeError"
  /\ it' = [it EXCEPT !.excs = @ \cup {"normalize"}]
  /\ UNCHANGED <<products, retry_file, checkpoint, i, stats, products_to_save,
                 visited, written, bo_retries, bo_delay, bo_calls, bo_excs,
                 proxy_list, proxy_index, proxies, att, fe_product>>
  /\ FeFrame

\* product_scraper.py:300-304, main.py:157-159  save_product_json, return
FeSaveJson ==
  /\ pc = "save_json"
  /\ products_to_save' = Append(products_to_save, fe_product)
  /\ stats' = [stats EXCEPT !.processed = @ + 1]
  /\ pc' = "flush"
  /\ UNCHANGED <<products, retry_file, checkpoint, i, visited, written,
                 bo_retries, bo_delay, bo_calls, bo_excs, proxy_list,
                 proxy_index, proxies, att, last_exc, fe_product, it>>
  /\ FeFrame

\* product_scraper.py:278,306  save_product_json raises: the product's name
\* is null, format_filename(None)
FeSaveJsonRaises ==
  /\ pc = "save_json"
  /\ pc' = "dead_letter"
  /\ last_exc' = "AttributeError"
  /\ it' = [it EXCEPT !.excs = @ \cup {"save"}]
  /\ UNCHANGED <<products, retry_file, checkpoint, i, stats, products_to_save,
                 visited, written, bo_retries, bo_delay, bo_calls, bo_excs,
                 proxy_list, proxy_index, proxies, att, fe_product>>
  /\ FeFrame

\* product_scraper.py:306-309, main.py:160-161  the handler of process_product
FeDeadLetter ==
  /\ pc = "dead_letter"
  /\ LET url_info == urls_to_process[i + 1]
     IN  retry_file' = SaveToRetry(retry_file,
                         [sku |-> url_info.sku, url |-> url_info.url],
                         last_exc, now)
  /\ stats' = CountFailure(stats)
  /\ pc' = "flush"
  /\ UNCHANGED <<products, checkpoint, i, products_to_save, visited, written,
                 bo_retries, bo_delay, bo_calls, bo_excs, proxy_list,
                 proxy_index, proxies, att, last_exc, fe_product, it>>
  /\ FeFrame

\* main.py:163-166
FeFlush ==
  /\ pc = "flush"
  /\ IF Len(products_to_save) >= args.batch_size
     THEN /\ products' = InsertProducts(products, products_to_save).table
          /\ products_to_save' = <<>>
     ELSE UNCHANGED <<products, products_to_save>>
  /\ pc' = "ckpt"
  /\ UNCHANGED <<retry_file, checkpoint, i, stats, visited, written,
                 bo_retries, bo_delay, bo_calls, bo_excs, proxy_list,
                 proxy_index, proxies, att, last_exc, fe_product, it>>
  /\ FeFrame

\* main.py:168-174
FeCheckpoint ==
  /\ pc = "ckpt"
  /\ IF i % CheckpointEvery = 0
     THEN /\ checkpoint' = CreateCheckpoint(i, Len(urls_to_process), now)
          /\ written' = Append(written, i)
     ELSE UNCHANGED <<checkpoint, written>>
  /\ i' = i + 1
  /\ pc' = "loop"
  /\ UNCHANGED <<products, retry_file, stats, products_to_save, visited,
                 bo_retries, bo_delay, bo_calls, bo_excs, proxy_list,
                 proxy_index, proxies, att, last_exc, fe_product, it>>
  /\ FeFrame

\* main.py:144  the loop is exhausted
FeLoopExhausted ==
  /\ pc = "loop"
  /\ i >= Len(urls_to_process)
  /\ pc' = "done"
  /\ UNCHANGED <<products, retry_file, checkpoint, i, stats, products_to_save,
                 visited, written, bo_retries, bo_delay, bo_calls, bo_excs,
                 proxy_list, proxy_index, proxies, att, last_exc, fe_product,
                 it>>
  /\ FeFrame

NextFetch ==
  \/ FeLoopNext
  \/ FeAcquire
  \/ \E new_proxies \in FetchRefreshes : FeAcquireRefresh(new_proxies)
  \/ \E e \in SendErrors : FeSendRaises(e)
  \/ \E status \in Statuses, has_data \in BOOLEAN : FeResponse(status, has_data)
  \/ \E resp_sku \in 0..MaxItems : FeNormalize(resp_sku)
  \/ FeNormalizeRaises
  \/ FeSaveJson
  \/ FeSaveJsonRaises
  \/ FeDeadLetter
  \/ FeFlush
  \/ FeCheckpoint
  \/ FeLoopExhausted

SpecFetch == InitSpecFetch /\ [][NextFetch]_vars

WorkItems == {[sku |-> k, url |-> Url(k)] : k \in 1..MaxFilterSku}

\* every variable but pf
PfFrame ==
  UNCHANGED <<vars_store, vars_run, vars_hist, vars_db, vars_bo, vars_px, vars_fe>>

InitIdle ==
  /\ InitStore /\ InitRun /\ InitHist /\ InitDbIdle /\ InitBoIdle /\ InitPxIdle
  /\ InitFeIdle

InitSpecFilter ==
  /\ InitIdle
  /\ \E urls \in SeqsOf(WorkItems, 0, MaxFilterLen),
        processed_skus \in SUBSET (1..MaxFilterSku) :
       pf = [op |-> "get_unprocessed_urls", urls |-> urls,
             processed_skus |-> processed_skus, returned |-> FALSE,
             unprocessed |-> <<>>]

\* sitemap_parser.py:159-174
FilterCall ==
  /\ ~pf.returned
  /\ pf' = [pf EXCEPT !.returned = TRUE,
                      !.unprocessed = GetUnprocessedUrls(pf.urls, pf.processed_skus)]
  /\ PfFrame

\* the same list filtered against the set of SKUs stored meanwhile
FilterAgain(processed_skus) ==
  /\ pf.returned
  /\ pf' = [pf EXCEPT !.returned = FALSE, !.processed_skus = processed_skus,
                      !.unprocessed = <<>>]
  /\ PfFrame

NextFilter ==
  \/ FilterCall
  \/ \E processed_skus \in SUBSET (1..MaxFilterSku) : FilterAgain(processed_skus)

SpecFilter == InitSpecFilter /\ [][NextFilter]_vars

\* positions of W whose SKU is not in D
KeptPositions(W, D) == {j \in 1..Len(W) : W[j].sku \notin D}

\* the k-th smallest element of a set of positions
KthOf(S, k) == CHOOSE j \in S : Cardinality({x \in S : x < j}) = k - 1

\* C12: the list returned holds the items of W at the positions whose SKU is
\* not in D, one item per such position, in increasing order of position;
\* for W = [1, 2, 3] and D = {2} it is [1, 3].
C12_Unprocessed ==
  pf.returned =>
    LET keep == KeptPositions(pf.urls, pf.processed_skus)
    IN  /\ Len(pf.unprocessed) = Cardinality(keep)
        /\ \A k \in 1..Len(pf.unprocessed) :
             pf.unprocessed[k] = pf.urls[KthOf(keep, k)]
        /\ (/\ pf.urls = <<[sku |-> 1, url |-> Url(1)], [sku |-> 2, url |-> Url(2)],
                           [sku |-> 3, url |-> Url(3)]>>
            /\ pf.processed_skus = {2})
           => pf.unprocessed = <<[sku |-> 1, url |-> Url(1)],
                                 [sku |-> 3, url |-> Url(3)]>>

C12_Witness ==
  /\ pf.returned
  /\ pf.urls = <<[sku |-> 1, url |-> Url(1)], [sku |-> 2, url |-> Url(2)],
                 [sku |-> 3, url |-> Url(3)]>>
  /\ pf.processed_skus = {2}
  /\ Len(pf.unprocessed) = 2

(***************************************************************************)
(* Properties of scrape_task (checked under Spec).                         *)
(***************************************************************************)
IsPrefix(a, b) == Len(a) <= Len(b) /\ \A j \in 1..Len(a) : a[j] = b[j]

NonDecreasing(q) == \A j \in 1..(Len(q) - 1) : q[j] <= q[j + 1]

\* positions p, p+1, ..., n-1
Positions(p, n) == [j \in 1..(n - p) |-> p + j - 1]

InRun == pc \in LoopPcs \cup FinPcs \cup {"done"}

Ordinary == InRun /\ ~args.retry

\* dead-letter entries appended by the current run
NewDeadLetters ==
  IF retry_file.exists
  THEN Len(retry_file.entries) - (IF dl_start.exists THEN Len(dl_start.entries) ELSE 0)
  ELSE 0

\* items of this run whose handling is finished: a record was returned or the
\* item was dead-lettered
Handled == Len(got) + NewDeadLetters

Stored(rec) == \E j \in 1..Len(products) : products[j] = rec

\* C1: in ordinary mode, with a checkpoint at position p < N, the loop visits
\* positions p, p+1, ... in order, never a position below p, and when the
\* work list is exhausted it has visited exactly the positions p..N-1.
C1_ResumeVisits ==
  (Ordinary /\ loaded.exists /\ loaded.current_position < Len(urls_to_process))
  => LET want == Positions(loaded.current_position, Len(urls_to_process))
     IN  /\ IsPrefix(visited, want)
         /\ exit_kind = "exhausted" => visited = want

C1_Witness ==
  /\ Ordinary /\ pc = "done" /\ exit_kind = "exhausted"
  /\ loaded.exists /\ loaded.current_position = 1
  /\ Len(urls_to_process) = 3
  /\ visited = <<1, 2>>

\* C2: however the loop is left, scrape_task goes through its finally block,
\* and when it is done the pending batch has been flushed, the statistics
\* saved, the final checkpoint written and the database closed.
C2_AllFour ==
  pc = "done" =>
    /\ fin = {"flush", "stats", "checkpoint", "close"}
    /\ \A j \in 1..Len(products_to_save) :
         products_to_save[j].sku # NoSku => Stored(products_to_save[j])
    /\ stats_table # <<>> /\ stats_table[Len(stats_table)].stats = stats
    /\ checkpoint.exists
    /\ checkpoint.current_position = written[Len(written)]
    /\ ~db_open

C2_Finalizing ==
  /\ [](C2_AllFour)
  /\ [][(pc \in LoopPcs /\ pc' \notin LoopPcs) => pc' = "fin_flush"]_vars
  /\ [][(pc \in FinPcs /\ pc' # pc) => pc' \in FinPcs \cup {"done"}]_vars

C2_Witness ==
  /\ pc = "done" /\ exit_kind = "interrupt"
  /\ products_to_save # <<>>
  /\ fin = {"flush", "stats", "checkpoint", "close"}

\* C3 (as claimed): after an interrupt every record returned by
\* process_product in this run is stored, and the final checkpoint is the
\* start cursor plus the items handled, at most the length of the work list.
C3_InterruptClaim ==
  (pc = "done" /\ exit_kind = "interrupt") =>
    /\ \A j \in 1..Len(got) : Stored(got[j])
    /\ checkpoint.current_position = start_idx + Handled
    /\ checkpoint.current_position <= Len(urls_to_process)

\* C6: when the last attempt of an item fails, one entry with the item's sku
\* and url, the reason and the time is appended to the dead-letter file, the
\* earlier entries stay, and the loop goes on (the item is counted failed).
C6_DeadLetter ==
  [][(pc = "fetch" /\ stats'.failed = stats.failed + 1)
      => LET url_info == urls_to_process[i + 1]
             old == IF retry_file.exists THEN retry_file.entries ELSE <<>>
         IN  /\ retries = FetchMaxRetries
             /\ retry_file'.exists
             /\ Len(retry_file'.entries) = Len(old) + 1
             /\ SubSeq(retry_file'.entries, 1, Len(old)) = old
             /\ LET entry == retry_file'.entries[Len(old) + 1]
                IN  /\ entry.data = [sku |-> url_info.sku, url |-> url_info.url]
                    /\ entry.reason \in FetchErrors
                    /\ entry.timestamp = now
             /\ pc' = "flush" /\ i' = i]_vars

C6_Witness ==
  /\ pc = "flush" /\ stats.failed = 1 /\ NewDeadLetters = 1
  /\ retry_file.exists /\ Len(retry_file.entries) >= 2

\* C7 (as claimed): a retry run without --skip/--limit that exhausts its list
\* starts at position 0 and fetches every dead-lettered identifier exactly
\* once and nothing else.
C7_RetryClaim ==
  (pc = "done" /\ args.retry /\ exit_kind = "exhausted"
     /\ args.skip = 0 /\ args.limit = 0) =>
    LET ids == {dl_start.entries[j].data.sku : j \in 1..Len(dl_start.entries)}
    IN  /\ start_idx = 0
        /\ Range(fetched) \subseteq ids
        /\ \A k \in ids : Count(fetched, k) = 1

Discovered(retry) ==
  IF retry THEN RetryUrls(retry_file)
  ELSE GetUnprocessedUrls(CachedUrls, GetProcessedSkus(products))

\* the items of all from position skip on, at most limit of them (limit 0: all)
Sliced(all, skip, limit) ==
  LET rest == Len(all) - skip
      n == IF rest < 0 THEN 0
           ELSE IF limit > 0 /\ limit < rest THEN limit ELSE rest
  IN  [j \in 1..n |-> all[skip + j]]

\* C13: the work list of a run is the discovered list without its first skip
\* items, cut to limit items; the SKUs handed to process_product are those of
\* the work list from start_idx on, in order, all of them once the loop is
\* exhausted; and an item is handed over only between iterations, when no
\* attempt for the previous item is pending.
C13_FetchOrder ==
  /\ [][(pc \in {"idle", "done"} /\ pc' = "loop")
          => urls_to_process' = Sliced(Discovered(args'.retry), args'.skip,
                                       args'.limit)]_vars
  /\ [](InRun =>
          /\ \A k \in 1..Len(fetched) :
               /\ start_idx + k <= Len(urls_to_process)
               /\ fetched[k] = urls_to_process[start_idx + k].sku
          /\ exit_kind = "exhausted" =>
               Len(fetched) = IF start_idx < Len(urls_to_process)
                              THEN Len(urls_to_process) - start_idx ELSE 0)
  /\ [][Len(fetched') > Len(fetched) => (pc = "loop" /\ retries = 0)]_vars

C13_Witness ==
  /\ pc = "done" /\ exit_kind = "exhausted"
  /\ args.skip = 1 /\ args.limit = 1 /\ ~args.retry
  /\ total_urls = 3 /\ start_idx = 0
  /\ fetched = <<2>>

\* C14 (as claimed): a request is sent only after get_proxy, and an attempt
\* made through a proxy ends with exactly one report for that proxy:
\* report_success if fetch_product returned the data, report_failure if the
\* attempt raised.
C14_ReportClaim ==
  /\ [][pc' = "send" => pc = "acquire"]_vars
  /\ [][(pc = "send" /\ pc' # "send" /\ proxies # NoUrl)
          => att'.reports =
               <<[op |-> IF att'.outcome = "ok" THEN "report_success"
                         ELSE "report_failure",
                  url |-> proxies]>>]_vars

\* delay after k sleeps of the decorator: initial_delay * factor^k
RECURSIVE DelayAfter(_)
DelayAfter(k) == IF k = 0 THEN InitialDelay ELSE DelayAfter(k - 1) * Factor

\* C15: a 200 response without the data field makes the attempt fail with
\* ValueError; a failed attempt is retried whatever it raised, with the k-th
\* retry following a sleep of initial_delay * factor^(k-1); fetch_product
\* gives up after exactly FetchMaxRetries retries (FetchMaxRetries + 1
\* attempts), and the item is then appended to the retry file under its SKU
\* with the last exception as reason.
C15_InvalidPayload ==
  /\ [](att.status = 200 /\ ~att.has_data => att.outcome = "ValueError")
  /\ [](pc \in {"acquire", "send"}
          => /\ bo_retries = Len(bo_excs) /\ bo_retries <= FetchMaxRetries
             /\ bo_delay = DelayAfter(bo_retries))
  /\ []((pc = "dead_letter" /\ "fetch" \in it.excs)
          => /\ Len(bo_excs) = FetchMaxRetries + 1
             /\ bo_calls = FetchMaxRetries + 1
             /\ bo_delay = DelayAfter(FetchMaxRetries)
             /\ last_exc = bo_excs[Len(bo_excs)])
  /\ [][(pc = "dead_letter" /\ pc' # "dead_letter")
          => LET old == IF retry_file.exists THEN retry_file.entries ELSE <<>>
                 e == retry_file'.entries[Len(retry_file'.entries)]
             IN  /\ retry_file'.exists
                 /\ Len(retry_file'.entries) = Len(old) + 1
                 /\ e.data.sku = urls_to_process[i + 1].sku
                 /\ e.reason = last_exc]_vars

\* four attempts at the first item all got a 200 response without data; the
\* item is in the retry file under its SKU
C15_Witness ==
  /\ pc = "flush" /\ i = 0
  /\ bo_excs = <<"ValueError", "ValueError", "ValueError", "ValueError">>
  /\ bo_calls = 4
  /\ retry_file.exists
  /\ retry_file.entries[Len(retry_file.entries)].data.sku = urls_to_process[1].sku
  /\ retry_file.entries[Len(retry_file.entries)].reason = "ValueError"
  /\ stats.failed = 1

\* the urls of a pool
PoolUrls(pool) == {pool[j].url : j \in 1..Len(pool)}

\* C16: once get_proxy has been called as often as the pool has entries with
\* no eviction and no replacement of the pool in between, the last
\* Len(proxy_list) calls returned every endpoint of the pool exactly once;
\* get_proxy returns nothing exactly when USE_PROXY is false or the pool is
\* empty after the refresh it made, and otherwise an endpoint of the pool;
\* the cursor always points into a non-empty pool, so the indexing in
\* _get_free_proxy cannot raise.
C16_RoundRobin ==
  /\ (proxy_list # <<>> /\ Len(px_round) = Len(proxy_list))
       => /\ Range(px_round) = PoolUrls(proxy_list)
          /\ \A a, b \in 1..Len(px_round) : px_round[a] = px_round[b] => a = b
  /\ px_op.op \in {"get_proxy", "get_proxy_refresh"}
       => IF use_proxy /\ proxy_list # <<>>
          THEN px_op.url \in PoolUrls(proxy_list)
          ELSE px_op.url = NoUrl
  /\ proxy_list # <<>> => proxy_index < Len(proxy_list)
  /\ proxy_list = <<>> => proxy_index = 0

\* three calls on a pool of three went around the end of the list
C16_Witness ==
  /\ use_proxy /\ Len(proxy_list) = 3 /\ Len(px_round) = 3
  /\ px_round[1] = proxy_list[2].url
  /\ px_round[3] = proxy_list[1].url
  /\ px_op.op = "get_proxy"

\* a refresh that delivered nothing left the pool empty: get_proxy returned
\* nothing
C16_WitnessEmpty ==
  /\ use_proxy /\ proxy_list = <<>>
  /\ px_op = [op |-> "get_proxy_refresh", url |-> NoUrl]

(***************************************************************************)
(* SpecCkpt: create_checkpoint and load_checkpoint (utils.py:180-216) on   *)
(* the checkpoint files of two types, called in any order, with the start  *)
(* of scrape_task (main.py:124-127) reading the file of type "scrape".     *)
(* Between the calls a file may be deleted or damaged from outside.        *)
(***************************************************************************)
CkptTypes == {"scrape", "sitemap"}

\* the arguments of the calls of create_checkpoint
CkptArgs == ((0..MaxCkPos) \X (0..MaxCkTotal)) \cup {<<7, 10>>}

\* contents of a checkpoint file that create_checkpoint did not write: no
\* UTF-8 text; text that is no JSON; the JSON texts [], [1], {"x": 1},
\* {"current_position": "abc"} and {"current_position": null}
Damaged ==
  {[exists |-> TRUE, corrupt |-> c] :
     c \in {"not_utf8", "not_json", "empty_list", "list", "no_position",
            "position_text", "position_null"}}

IsCheckpoint(file) == file.exists /\ "corrupt" \notin DOMAIN file

\* every type written to one file
CheckpointFile_shared(checkpoint_type) == "sitemap"

\* utils.py:185,206  the file of a checkpoint type
CheckpointFile(checkpoint_type) == checkpoint_type

\* utils.py:202-216  load_checkpoint on the content of the file
LoadCheckpoint(file) ==
  IF ~file.exists THEN [kind |-> "none"]
  ELSE IF IsCheckpoint(file) THEN [kind |-> "value", value |-> file]
  ELSE IF file.corrupt = "not_utf8"
       THEN [kind |-> "raised", exc |-> "UnicodeDecodeError"]
  ELSE IF file.corrupt = "not_json" THEN [kind |-> "none"]
  ELSE [kind |-> "value", value |-> file]

\* main.py:124-127  the start of the run from what load_checkpoint gave
ResumeFrom(ckpt, retry) ==
  IF ckpt.kind = "raised" THEN [kind |-> "raised", exc |-> ckpt.exc]
  ELSE IF ckpt.kind = "none" \/ retry THEN [kind |-> "started", start_idx |-> 0]
  ELSE IF IsCheckpoint(ckpt.value)
       THEN [kind |-> "started", start_idx |-> StartIdx(ckpt.value, retry)]
  ELSE IF ckpt.value.corrupt = "empty_list"
       THEN [kind |-> "started", start_idx |-> 0]
  ELSE IF ckpt.value.corrupt = "list"
       THEN [kind |-> "raised", exc |-> "AttributeError"]
  ELSE IF ckpt.value.corrupt = "no_position"
       THEN [kind |-> "started", start_idx |-> 0]
  ELSE IF ckpt.value.corrupt = "position_text"
       THEN [kind |-> "raised", exc |-> "ValueError"]
  ELSE [kind |-> "raised", exc |-> "TypeError"]

NoSave == [saved |-> FALSE]

InitSpecCkpt ==
  /\ InitIdle
  /\ pf = [op |-> "init",
           files |-> [f \in CkptTypes |-> NoFile],
           saved |-> [t \in CkptTypes |-> NoSave]]

\* utils.py:180-200
CkCreate(checkpoint_type, current_position, total) ==
  /\ pf' = [op |-> "create_checkpoint",
            files |-> [pf.files EXCEPT ![CheckpointFile(checkpoint_type)] =
                         CreateCheckpoint(current_position, total, now)],
            saved |-> [pf.saved EXCEPT ![checkpoint_type] =
                         [saved |-> TRUE, current_position |-> current_position,
                          total |-> total]]]
  /\ PfFrame

\* utils.py:202-216
CkLoad(checkpoint_type) ==
  /\ pf' = [op |-> "load_checkpoint", files |-> pf.files, saved |-> pf.saved,
            type |-> checkpoint_type,
            result |-> LoadCheckpoint(pf.files[CheckpointFile(checkpoint_type)])]
  /\ PfFrame

\* the file of a type is deleted or overwritten from outside
CkDamage(checkpoint_type, content) ==
  /\ pf' = [op |-> "damage",
            files |-> [pf.files EXCEPT ![CheckpointFile(checkpoint_type)] = content],
            saved |-> [pf.saved EXCEPT ![checkpoint_type] = NoSave]]
  /\ PfFrame

\* main.py:124-127
CkRunStart(retry) ==
  /\ LET file == pf.files[CheckpointFile("scrape")]
         ckpt == LoadCheckpoint(file)
     IN  pf' = [op |-> "scrape_task", files |-> pf.files, saved |-> pf.saved,
                file |-> file, retry |-> retry, checkpoint |-> ckpt,
                outcome |-> ResumeFrom(ckpt, retry)]
  /\ PfFrame

NextCkpt ==
  \/ \E t \in CkptTypes, a \in CkptArgs : CkCreate(t, a[1], a[2])
  \/ \E t \in CkptTypes : CkLoad(t)
  \/ \E t \in CkptTypes, content \in Damaged \cup {NoFile} : CkDamage(t, content)
  \/ \E retry \in BOOLEAN : CkRunStart(retry)

SpecCkpt == InitSpecCkpt /\ [][NextCkpt]_vars

\* C17: a load_checkpoint of a type whose file was last written by
\* create_checkpoint(position, total) returns that position and that total,
\* whatever was saved before and whatever happened to the other type, with
\* progress_pct = position / total * 100 if total > 0 and 0 otherwise; for
\* position 7 and total 10 that is 70.
C17_RoundTrip ==
  (pf.op = "load_checkpoint" /\ pf.saved[pf.type].saved)
    => LET s == pf.saved[pf.type]
       IN  /\ pf.result.kind = "value"
           /\ pf.result.value.current_position = s.current_position
           /\ pf.result.value.total = s.total
           /\ LET pct == pf.result.value.progress_pct
              IN  /\ pct.den > 0
                  /\ IF s.total = 0 THEN pct.num = 0
                     ELSE pct.num * s.total = s.current_position * 100 * pct.den
                  /\ (s.current_position = 7 /\ s.total = 10)
                       => pct.num = 70 * pct.den

\* "scrape" was last saved at 7 of 10 and "sitemap" at 1 of 0; "scrape" loads
\* back 7 of 10 with 70 percent
C17_Witness ==
  /\ pf.op = "load_checkpoint" /\ pf.type = "scrape"
  /\ pf.saved["scrape"] = [saved |-> TRUE, current_position |-> 7, total |-> 10]
  /\ pf.saved["sitemap"] = [saved |-> TRUE, current_position |-> 1, total |-> 0]
  /\ pf.result.kind = "value"
  /\ pf.result.value.current_position = 7 /\ pf.result.value.total = 10
  /\ pf.result.value.progress_pct = [num |-> 700, den |-> 10]

\* C18 (as claimed): a run that finds the file of type "scrape" missing or
\* holding anything but a checkpoint gets nothing from load_checkpoint and
\* starts at position 0; no content of the file makes the run raise.
C18_CorruptClaim ==
  pf.op = "scrape_task"
    => /\ pf.outcome.kind = "started"
       /\ ~IsCheckpoint(pf.file)
            => pf.checkpoint.kind = "none" /\ pf.outcome.start_idx = 0

(***************************************************************************)
(* SpecStore: ProductDatabase over process runs.  products is the table in *)
(* data/db.json; an open ProductDatabase works on the copy that TinyDB's   *)
(* CachingMiddleware holds in memory (pf.cache) and writes back on close.  *)
(* The middleware also writes back after 1000 writes of one handle, more   *)
(* than a handle makes here.                                               *)
(***************************************************************************)
\* a close that drops the cached table
AfterClose_noFlush(disk, cache) == disk

\* database.py:153-158  data/db.json after close(): the cached table
AfterClose(disk, cache) == cache

StFrame ==
  UNCHANGED <<stats_table, retry_file, checkpoint, now, pc, args,
              urls_to_process, total_urls, start_idx, i, stats,
              products_to_save, retries, vars_hist, vars_db, vars_bo, vars_px,
              vars_fe>>

InitSpecStore ==
  /\ InitIdle
  /\ pf = [op |-> "init", cache |-> <<>>, opens |-> 0,
           upserted |-> {}, pending |-> FALSE, lost |-> FALSE, result |-> {}]

\* database.py:20-39  a process opens the database
StOpen ==
  /\ ~db_open
  /\ pf.opens < MaxOpens
  /\ db_open' = TRUE
  /\ pf' = [pf EXCEPT !.op = "open", !.cache = products, !.opens = @ + 1,
                      !.pending = FALSE]
  /\ UNCHANGED products
  /\ StFrame

\* database.py:41-66
StInsertProduct(product) ==
  /\ db_open
  /\ Len(pf.cache) < MaxDocs
  /\ pf' = [pf EXCEPT !.op = "insert_product",
                      !.cache = InsertProduct(pf.cache, product).table,
                      !.upserted = @ \cup ({product.sku} \ {NoSku}),
                      !.pending = TRUE]
  /\ UNCHANGED <<products, db_open>>
  /\ StFrame

\* database.py:68-104
StInsertProducts(batch) ==
  /\ db_open
  /\ Len(pf.cache) + Len(batch) <= MaxDocs
  /\ pf' = [pf EXCEPT !.op = "insert_products",
                      !.cache = InsertProducts(pf.cache, batch).table,
                      !.upserted = @ \cup (Range(BatchSkus(batch))),
                      !.pending = @ \/ batch # <<>>]
  /\ UNCHANGED <<products, db_open>>
  /\ StFrame

\* database.py:132-138
StGetProcessedSkus ==
  /\ db_open
  /\ pf' = [pf EXCEPT !.op = "get_processed_skus",
                      !.result = GetProcessedSkus(pf.cache)]
  /\ UNCHANGED <<products, db_open>>
  /\ StFrame

\* database.py:153-158
StClose ==
  /\ db_open
  /\ products' = AfterClose(products, pf.cache)
  /\ db_open' = FALSE
  /\ pf' = [pf EXCEPT !.op = "close", !.cache = <<>>, !.pending = FALSE]
  /\ StFrame

\* the process ends without close(): main.py:93-95 returns with the database
\* open, or the process is killed
StExit ==
  /\ db_open
  /\ db_open' = FALSE
  /\ pf' = [pf EXCEPT !.op = "exit", !.cache = <<>>, !.pending = FALSE,
                      !.lost = @ \/ pf.pending]
  /\ UNCHANGED products
  /\ StFrame

NextStore ==
  \/ StOpen
  \/ \E product \in DbRecords : StInsertProduct(product)
  \/ \E batch \in SeqsOf(DbRecords, 0, MaxDbBatch) : StInsertProducts(batch)
  \/ StGetProcessedSkus
  \/ StClose
  \/ StExit

SpecStore == InitSpecStore /\ [][NextStore]_vars

\* C19: get_processed_skus returns exactly the SKUs given to insert_product
\* and insert_products so far, by this ProductDatabase and by those of
\* earlier processes, provided every earlier one that had written was
\* closed; what is read after a reopen comes from data/db.json.
C19_ProcessedSkus ==
  /\ (pf.op = "get_processed_skus" /\ ~pf.lost) => pf.result = pf.upserted
  /\ (pf.op = "open" /\ ~pf.lost) => GetProcessedSkus(products) = pf.upserted
  /\ pf.op = "get_processed_skus" => pf.result \subseteq pf.upserted

\* the second process inserted nothing and reads the two SKUs the first one
\* inserted and closed
C19_Witness ==
  /\ pf.op = "get_processed_skus" /\ pf.opens = 2 /\ ~pf.pending /\ ~pf.lost
  /\ pf.result = {1, 2}

(***************************************************************************)
(* SpecSitemap: parse_sitemap() called several times, each call fetching   *)
(* the sitemap through the wrapped fetch_sitemap (sitemap_parser.py:25-64),*)
(* one attempt per step.  A url is the sequence of the parts that its      *)
(* hyphens separate.  USE_PROXY is false: get_proxy returns nothing and    *)
(* nothing is reported.                                                    *)
(***************************************************************************)
\* sitemap_parser.py:182-205  the <loc> elements of the fallback sitemap
FallbackLocs ==
  [k \in 1..((end_id - start_id) \div step + 1) |->
     <<"https://www.plus.nl/product/product", start_id + (k - 1) * step>>]
  \o [k \in 1..Len(known_ids) |->
        <<"https://www.plus.nl/product/product", known_ids[k]>>]

\* sitemap_parser.py:176-210
GenerateFallbackSitemap == [xml |-> TRUE, locs |-> FallbackLocs]

\* utils.py:156-166  url.strip('/').split('-')[-1]
ExtractSkuFromUrl(url) == url[Len(url)]

\* sitemap_parser.py:73-101  the url_info list of a sitemap text, [] if the
\* text is no XML
ParseSitemap(xml_content) ==
  IF ~xml_content.xml THEN <<>>
  ELSE [j \in 1..Len(xml_content.locs) |->
          [url |-> xml_content.locs[j],
           sku |-> ExtractSkuFromUrl(xml_content.locs[j])]]

\* what the remote index answers with status 200
SitemapBodies ==
  {[xml |-> FALSE]} \cup
  {[xml |-> TRUE, locs |-> [j \in 1..n |-> <<"https://www.plus.nl/product/plus", "melk", j>>]] :
     n \in 0..MaxLocs}

\* requests.get raises (sitemap_parser.py:48-53)
SitemapErrors == {"ConnectionError"}
\* response.status_code
SitemapStatuses == {200, 403, 500}

SmFrame ==
  UNCHANGED <<vars_store, vars_run, vars_hist, vars_db, vars_px, vars_fe,
              bo_m, bo_sleeps>>

InitSpecSitemap ==
  /\ InitStore /\ InitRun /\ InitHist /\ InitDbIdle /\ InitPxIdle /\ InitFeIdle
  /\ bo_m = SitemapMaxRetries /\ bo_retries = 0 /\ bo_delay = InitialDelay
  /\ bo_calls = 0 /\ bo_excs = <<>> /\ bo_sleeps = <<>>
  /\ bo_result = [kind |-> "idle"]
  /\ pf = [op |-> "init", cache |-> <<>>, results |-> <<>>]

\* sitemap_parser.py:66-71  parse_sitemap() calls fetch_sitemap
SmParseSitemap ==
  /\ bo_result.kind # "running"
  /\ Len(pf.results) < MaxDiscoveries
  /\ bo_result' = [kind |-> "running"]
  /\ bo_retries' = 0 /\ bo_delay' = InitialDelay /\ bo_calls' = 0
  /\ bo_excs' = <<>>
  /\ pf' = [pf EXCEPT !.op = "parse_sitemap"]
  /\ SmFrame

\* utils.py:134-151  the attempt raised e: back off, or give up, and then the
\* exception leaves parse_sitemap (sitemap_parser.py:71 is outside the try)
SmAttemptFailed(e, status) ==
  /\ bo_calls' = bo_calls + 1
  /\ bo_excs' = Append(bo_excs, e)
  /\ bo_retries' = bo_retries + 1
  /\ IF Exhausted(bo_retries + 1, bo_m)
     THEN /\ bo_result' = [kind |-> "raised", exc |-> e]
          /\ pf' = [pf EXCEPT !.op = "raised",
                      !.results = Append(@, [kind |-> "raised", exc |-> e,
                                             status |-> status])]
          /\ UNCHANGED bo_delay
     ELSE /\ bo_delay' = bo_delay * Factor
          /\ pf' = [pf EXCEPT !.op = "retry"]
          /\ UNCHANGED bo_result

\* sitemap_parser.py:73-101  the rest of parse_sitemap on the text fetched
SmParsed(xml_content, status) ==
  LET urls == ParseSitemap(xml_content)
  IN  /\ bo_calls' = bo_calls + 1
      /\ bo_result' = [kind |-> "returned", value |-> xml_content]
      /\ pf' = [op |-> "returned",
                cache |-> IF xml_content.xml /\ urls # <<>> THEN urls ELSE pf.cache,
                results |-> Append(pf.results, [kind |-> "urls", urls |-> urls,
                                                status |-> status])]
      /\ UNCHANGED <<bo_retries, bo_delay, bo_excs>>

\* sitemap_parser.py:48-53  requests.get raises
SmSendRaises(e) ==
  /\ bo_result.kind = "running"
  /\ SmAttemptFailed(e, 0)
  /\ SmFrame

\* sitemap_parser.py:55-64  a response arrives
SmResponse(status, body) ==
  /\ bo_result.kind = "running"
  /\ IF status = 403 THEN SmParsed(GenerateFallbackSitemap, status)
     ELSE IF status = 200 THEN SmParsed(body, status)
     ELSE SmAttemptFailed("HTTPError", status)
  /\ SmFrame

NextSitemap ==
  \/ SmParseSitemap
  \/ \E e \in SitemapErrors : SmSendRaises(e)
  \/ \E status \in SitemapStatuses, body \in SitemapBodies : SmResponse(status, body)

SpecSitemap == InitSpecSitemap /\ [][NextSitemap]_vars

\* the url_info list of the fallback sitemap
FallbackUrls == ParseSitemap(GenerateFallbackSitemap)

\* C20 (as claimed): a call of parse_sitemap during which the index could
\* not be reached or answered 403 returns the fallback list, the same list of
\* pairwise distinct SKUs every time, and does not raise.
C20_FallbackClaim ==
  \A k \in 1..Len(pf.results) :
    LET r == pf.results[k]
    IN  (r.status = 403 \/ (r.kind = "raised" /\ r.exc \in SitemapErrors))
          => /\ r.kind = "urls"
             /\ r.urls = FallbackUrls
             /\ \A a, b \in 1..Len(r.urls) : r.urls[a].sku = r.urls[b].sku => a = b

(***************************************************************************)
(* SpecDiscover: ordinary runs of scrape_task with the discovery of the    *)
(* work list taken step by step: get_urls at main.py:77, then              *)
(* get_unprocessed_urls at main.py:111, which calls get_urls again.  Each  *)
(* get_urls reads data/product_urls.txt (pf.cache) if it exists and asks   *)
(* the remote index otherwise.  The loop and the finally block are the     *)
(* actions of Spec.                                                        *)
(***************************************************************************)
\* what a request for the remote index ends with: an exception that
\* fetch_sitemap re-raises, or the text of a 200 response
DiscoverOutcomes ==
  {[kind |-> "raised"]} \cup {[kind |-> "text", body |-> b] : b \in SitemapBodies}

\* a parse_sitemap that lets the parse error through
GetUrls_parseErrorRaises(cache, outcome) ==
  IF cache.exists THEN [kind |-> "urls", urls |-> cache.urls, cache |-> cache]
  ELSE IF outcome.kind = "raised" \/ ~outcome.body.xml
       THEN [kind |-> "raised", cache |-> cache]
  ELSE LET urls == ParseSitemap(outcome.body)
       IN  [kind |-> "urls", urls |-> urls,
            cache |-> IF urls # <<>> THEN [exists |-> TRUE, urls |-> urls]
                      ELSE cache]

\* sitemap_parser.py:150-157,66-101,103-116  get_urls(): the list returned and
\* the cache file afterwards
GetUrls(cache, outcome) ==
  IF cache.exists THEN [kind |-> "urls", urls |-> cache.urls, cache |-> cache]
  ELSE IF outcome.kind = "raised" THEN [kind |-> "raised", cache |-> cache]
  ELSE LET urls == ParseSitemap(outcome.body)
       IN  [kind |-> "urls", urls |-> urls,
            cache |-> IF urls # <<>> THEN [exists |-> TRUE, urls |-> urls]
                      ELSE cache]

InitSpecDiscover ==
  /\ InitStore /\ InitRun /\ InitHist /\ InitDbIdle /\ InitBoIdle /\ InitPxIdle
  /\ InitFeIdle
  /\ pf = [op |-> "init", cache |-> NoFile, outcome |-> [kind |-> "none"],
           remote |-> FALSE, urls |-> <<>>, code |-> 0]

DvFrame == UNCHANGED <<vars_db, vars_bo, vars_px, vars_fe>>

\* main.py:65-74
DvStart(batch_size) ==
  /\ pc \in {"idle", "done"}
  /\ pf.op \in {"init", "main"}
  /\ now < MaxRuns
  /\ now' = now + 1
  /\ pc' = "get_urls"
  /\ args' = [NoArgs EXCEPT !.batch_size = batch_size]
  /\ urls_to_process' = <<>> /\ total_urls' = 0 /\ start_idx' = 0 /\ i' = 0
  /\ stats' = NoStats /\ products_to_save' = <<>> /\ retries' = 0
  /\ db_open' = TRUE
  /\ visited' = <<>> /\ fetched' = <<>> /\ got' = <<>> /\ written' = <<>>
  /\ loaded' = NoFile /\ dl_start' = retry_file /\ exit_kind' = "none"
  /\ fin' = {}
  /\ pf' = [pf EXCEPT !.op = "scrape_task", !.outcome = [kind |-> "none"],
                      !.remote = FALSE, !.urls = <<>>]
  /\ UNCHANGED <<products, stats_table, retry_file, checkpoint>>
  /\ DvFrame

\* main.py:76-77  product_urls = sitemap_parser.get_urls()
DvGetUrls(outcome) ==
  /\ pc = "get_urls"
  /\ LET r == GetUrls(pf.cache, outcome)
     IN  /\ pf' = [op |-> "get_urls", cache |-> r.cache, outcome |-> outcome,
                   remote |-> ~pf.cache.exists,
                   urls |-> IF r.kind = "urls" THEN r.urls ELSE <<>>,
                   code |-> 0]
         /\ IF r.kind = "raised"
            THEN pc' = "done" /\ exit_kind' = "raised"
            ELSE pc' = "filter" /\ UNCHANGED exit_kind
  /\ UNCHANGED <<vars_store, args, urls_to_process, total_urls, start_idx, i,
                 stats, products_to_save, retries, db_open, visited, fetched,
                 got, written, loaded, dl_start, fin>>
  /\ DvFrame

\* main.py:80-141  the processed SKUs, get_unprocessed_urls, the checkpoint
DvFilter(outcome) ==
  /\ pc = "filter"
  /\ LET r == GetUrls(pf.cache, outcome)
         all == GetUnprocessedUrls(r.urls, GetProcessedSkus(products))
         first == StartIdx(checkpoint, FALSE)
     IN  /\ pf' = [op |-> "get_unprocessed_urls", cache |-> r.cache,
                   outcome |-> outcome, remote |-> ~pf.cache.exists,
                   urls |-> IF r.kind = "urls" THEN r.urls ELSE <<>>,
                   code |-> 0]
         /\ IF r.kind = "raised"
            THEN /\ pc' = "done" /\ exit_kind' = "raised"
                 /\ UNCHANGED <<urls_to_process, total_urls, start_idx, i,
                                stats, loaded>>
            ELSE /\ pc' = "loop"
                 /\ urls_to_process' = ApplySkipLimit(all, args.skip, args.limit)
                 /\ total_urls' = Len(all)
                 /\ start_idx' = first
                 /\ i' = first
                 /\ stats' = [total |-> Len(all), processed |-> 0,
                              failed |-> 0, skipped |-> first]
                 /\ loaded' = checkpoint
                 /\ UNCHANGED exit_kind
  /\ UNCHANGED <<vars_store, args, products_to_save, retries, db_open, visited,
                 fetched, got, written, dl_start, fin>>
  /\ DvFrame

\* an exit code that counts failed items as a failure of the run
MainReturn_failedItems(kind, st) ==
  IF kind = "raised" \/ st.failed > 0 THEN 1 ELSE 0

\* main.py:239-257  the value main() returns after scrape_task: 1 if an
\* Exception came out of it, 0 otherwise; the statistics are not looked at
MainReturn(kind, st) == IF kind = "raised" THEN 1 ELSE 0

\* main.py:245-257  scrape_task has returned or raised; main() returns
DvMain ==
  /\ pc = "done"
  /\ pf.op # "main"
  /\ pf' = [pf EXCEPT !.op = "main", !.code = MainReturn(exit_kind, stats)]
  /\ UNCHANGED <<vars_store, vars_run, vars_hist>>
  /\ DvFrame

NextDiscover ==
  \/ \E batch_size \in 1..MaxBatch : DvStart(batch_size)
  \/ DvMain
  \/ \E outcome \in DiscoverOutcomes : DvGetUrls(outcome)
  \/ \E outcome \in DiscoverOutcomes : DvFilter(outcome)
  \/ LoopNext
  \/ LoopExhausted
  \/ \E e \in FetchErrors : FetchRetry(e)
  \/ \E e \in FetchErrors : FetchFailed(e)
  \/ \E resp_sku \in 0..MaxItems : FetchOk(resp_sku)
  \/ Flush
  \/ Checkpoint
  \/ Interrupt
  \/ FinFlush
  \/ FinStats
  \/ FinCheckpoint
  \/ FinClose

SpecDiscover == InitSpecDiscover /\ [][NextDiscover]_vars

\* C21: a get_urls that asked the remote index and got a text that is no
\* XML returns the empty list and does not raise; a run whose work list was
\* discovered empty makes no fetch, leaves the loop only into the finally
\* block, and ends with all four steps of the finally block done.
C21_EmptyDiscovery ==
  /\ []((pf.op \in {"get_urls", "get_unprocessed_urls"} /\ pf.remote
           /\ pf.outcome.kind = "text" /\ ~pf.outcome.body.xml)
          => pf.urls = <<>> /\ exit_kind # "raised")
  /\ []((pf.op = "get_unprocessed_urls" /\ pf.urls = <<>> /\ exit_kind # "raised")
          => /\ fetched = <<>> /\ visited = <<>>
             /\ pc \in {"loop", "fin_flush", "fin_stats", "fin_ckpt",
                        "fin_close", "done"}
             /\ pc = "done"
                  => /\ fin = {"flush", "stats", "checkpoint", "close"}
                     /\ exit_kind \in {"exhausted", "interrupt"}
                     /\ ~db_open)
  /\ [][(pc = "loop" /\ pf.urls = <<>>) => pc' \in {"loop", "fin_flush"}]_vars

\* both requests for the index got a text that is no XML; the loop found
\* nothing to do and the finally block has run
C21_Witness ==
  /\ pc = "done" /\ exit_kind = "exhausted"
  /\ pf.op = "get_unprocessed_urls" /\ pf.remote
  /\ pf.outcome = [kind |-> "text", body |-> [xml |-> FALSE]]
  /\ pf.urls = <<>> /\ fetched = <<>>
  /\ fin = {"flush", "stats", "checkpoint", "close"}
  /\ Len(stats_table) = 1

\* C22: main() returns 0 after every scrape_task that went through its
\* finally block, whatever the count of failed items and also after an
\* interrupt; it returns 1 only if scrape_task raised, and that happens only
\* before the loop: nothing was visited or fetched and the finally block did
\* not run.
C22_ExitCode ==
  pf.op = "main"
    => /\ pf.code \in {0, 1}
       /\ fin = {"flush", "stats", "checkpoint", "close"} => pf.code = 0
       /\ pf.code # 0
            => /\ exit_kind = "raised"
               /\ visited = <<>> /\ fetched = <<>> /\ fin = {}
               /\ stats = NoStats
       /\ pf.code = 0 => fin = {"flush", "stats", "checkpoint", "close"}

\* the only item of the run failed and main() has returned 0
C22_Witness ==
  /\ pf.op = "main" /\ pf.code = 0
  /\ stats.failed = 1 /\ stats.processed = 0
  /\ exit_kind = "exhausted"
  /\ fin = {"flush", "stats", "checkpoint", "close"}

\* discovery raised and main() has returned 1
C22_WitnessRaised ==
  /\ pf.op = "main" /\ pf.code = 1 /\ exit_kind = "raised" /\ db_open

(***************************************************************************)
(* SpecRerun: the ordinary pipeline (no --retry, --skip or --limit) run    *)
(* again and again over the cached work list, every fetch succeeding with  *)
(* the record of the item asked for.  The clock stops at MaxRuns, and the  *)
(* operator interrupts only runs started before that, so that from some    *)
(* run on every run goes through undisturbed.  The loop and the finally    *)
(* block are the actions of Spec.                                          *)
(***************************************************************************)
\* main.py:65-141  an ordinary run of scrape_task up to the loop
RrStart(batch_size) ==
  /\ pc \in {"idle", "done"}
  /\ LET all == GetUnprocessedUrls(CachedUrls, GetProcessedSkus(products))
         first == StartIdx(checkpoint, FALSE)
     IN  /\ urls_to_process' = ApplySkipLimit(all, 0, 0)
         /\ total_urls' = Len(all)
         /\ start_idx' = first
         /\ i' = first
         /\ stats' = [total |-> Len(all), processed |-> 0, failed |-> 0,
                      skipped |-> first]
  /\ now' = Min(now + 1, MaxRuns)
  /\ pc' = "loop"
  /\ args' = [NoArgs EXCEPT !.batch_size = batch_size]
  /\ products_to_save' = <<>> /\ retries' = 0
  /\ db_open' = TRUE
  /\ visited' = <<>> /\ fetched' = <<>> /\ got' = <<>> /\ written' = <<>>
  /\ loaded' = checkpoint /\ dl_start' = retry_file
  /\ exit_kind' = "none" /\ fin' = {}
  /\ UNCHANGED <<products, stats_table, retry_file, checkpoint>>
  /\ RunFrame

\* product_scraper.py:289-304  the fetch succeeds with the item's record
RrFetchOk == pc = "fetch" /\ FetchOk(urls_to_process[i + 1].sku)

\* main.py:188-189  the statistics of the run replace those kept here, so
\* that the table does not grow with the number of runs
RrFinStats ==
  /\ pc = "fin_stats"
  /\ stats_table' = <<[stats |-> stats, timestamp |-> now]>>
  /\ fin' = fin \cup {"stats"}
  /\ pc' = "fin_ckpt"
  /\ UNCHANGED <<products, retry_file, checkpoint, now, args, urls_to_process,
                 total_urls, start_idx, i, stats, products_to_save, retries,
                 db_open, visited, fetched, written, got, loaded,
                 dl_start, exit_kind>>
  /\ RunFrame

\* main.py:180-181  Ctrl-C during one of the first runs
RrInterrupt == now < MaxRuns /\ Interrupt

\* every step but the interrupt
RrProgress ==
  \/ \E batch_size \in 1..MaxBatch : RrStart(batch_size)
  \/ LoopNext
  \/ LoopExhausted
  \/ RrFetchOk
  \/ Flush
  \/ Checkpoint
  \/ FinFlush
  \/ RrFinStats
  \/ FinCheckpoint
  \/ FinClose

NextRerun == RrProgress \/ RrInterrupt

SpecRerun == Init /\ [][NextRerun]_vars /\ WF_vars(RrProgress)

\* the work list is fully stored
AllStored ==
  \A k \in 1..Len(CachedUrls) : CachedUrls[k].sku \in GetProcessedSkus(products)

\* C23 (as claimed): with every fetch succeeding and the pipeline run again
\* and again, a record is eventually stored for every item of the work list.
C23_EventuallyAll == <>AllStored

(***************************************************************************)
(* SpecPeriodic: one ordinary run of scrape_task over a work list long     *)
(* enough for a second periodic checkpoint, with the database as TinyDB    *)
(* keeps it: insert_products changes the tables cached in memory           *)
(* (pf.cache), and data/db.json (products) gets them when the database is  *)
(* closed.  Every response carries the SKU asked for.  The process may be  *)
(* killed at any point of the loop.                                        *)
(***************************************************************************)
\* --batch-size: the small sizes and the default
BatchSizes == (1..MaxBatch) \cup {DefaultBatchSize}

InitSpecPeriodic ==
  /\ InitStore /\ InitHist /\ InitDbIdle /\ InitBoIdle /\ InitPxIdle /\ InitFeIdle
  /\ pc = "loop"
  /\ \E batch_size \in BatchSizes : args = [NoArgs EXCEPT !.batch_size = batch_size]
  /\ urls_to_process = [k \in 1..MaxPeriodicItems |-> [sku |-> k, url |-> Url(k)]]
  /\ total_urls = Len(urls_to_process)
  /\ start_idx = 0 /\ i = 0
  /\ stats = [NoStats EXCEPT !.total = total_urls]
  /\ products_to_save = <<>> /\ retries = 0 /\ db_open = TRUE
  /\ pf = [op |-> "init", cache |-> <<>>, passed |-> <<>>]

\* product_scraper.py:289-304  the fetch succeeds with the item's record
PdFetchOk == pc = "fetch" /\ FetchOk(urls_to_process[i + 1].sku)

\* a threshold that lets the batch grow one record further
BatchFull_over(n, batch_size) == n > batch_size

\* main.py:163  if len(products_to_save) >= batch_size
BatchFull(n, batch_size) == n >= batch_size

\* main.py:163-166  insert_products on the cached tables; pf.passed lists
\* the records handed to insert_products
PdFlush ==
  /\ pc = "flush"
  /\ IF BatchFull(Len(products_to_save), args.batch_size)
     THEN /\ pf' = [op |-> "insert_products",
                    cache |-> InsertProducts(pf.cache, products_to_save).table,
                    passed |-> pf.passed \o products_to_save]
          /\ products_to_save' = <<>>
     ELSE UNCHANGED <<pf, products_to_save>>
  /\ pc' = "ckpt"
  /\ UNCHANGED <<vars_store, args, urls_to_process, total_urls, start_idx, i,
                 stats, retries, db_open, vars_hist, vars_db, vars_bo, vars_px,
                 vars_fe>>

\* main.py:184-186
PdFinFlush ==
  /\ pc = "fin_flush"
  /\ pf' = IF products_to_save # <<>>
           THEN [op |-> "insert_products",
                 cache |-> InsertProducts(pf.cache, products_to_save).table,
                 passed |-> pf.passed \o products_to_save]
           ELSE pf
  /\ fin' = fin \cup {"flush"}
  /\ pc' = "fin_stats"
  /\ UNCHANGED <<vars_store, args, urls_to_process, total_urls, start_idx, i,
                 stats, products_to_save, retries, db_open, visited, fetched,
                 written, got, loaded, dl_start, exit_kind,
                 vars_db, vars_bo, vars_px, vars_fe>>

\* main.py:195-196, database.py:153-158  close writes the cached tables
PdFinClose ==
  /\ pc = "fin_close"
  /\ products' = AfterClose(products, pf.cache)
  /\ db_open' = FALSE
  /\ fin' = fin \cup {"close"}
  /\ pc' = "done"
  /\ pf' = [pf EXCEPT !.op = "close"]
  /\ UNCHANGED <<stats_table, retry_file, checkpoint, now, args,
                 urls_to_process, total_urls, start_idx, i, stats,
                 products_to_save, retries, visited, fetched, written, got,
                 loaded, dl_start, exit_kind, vars_db, vars_bo, vars_px, vars_fe>>

\* the process is killed in the loop: what is in memory is gone
PdKill ==
  /\ pc \in LoopPcs
  /\ pc' = "done"
  /\ exit_kind' = "killed"
  /\ db_open' = FALSE
  /\ products_to_save' = <<>>
  /\ pf' = [pf EXCEPT !.op = "killed", !.cache = <<>>]
  /\ UNCHANGED <<vars_store, args, urls_to_process, total_urls, start_idx, i,
                 stats, retries, visited, fetched, written, got, loaded,
                 dl_start, fin, vars_db, vars_bo, vars_px, vars_fe>>

\* utils.py:134-148  an attempt fails and is retried; the run has at most
\* MaxPeriodicFailures items that fail
PdFetchRetry(e) == stats.failed < MaxPeriodicFailures /\ FetchRetry(e)

NextPeriodic ==
  \/ LoopNext
  \/ LoopExhausted
  \/ PdFetchOk
  \/ \E e \in FetchErrors : PdFetchRetry(e)
  \/ \E e \in FetchErrors : FetchFailed(e)
  \/ PdFlush
  \/ Checkpoint
  \/ Interrupt
  \/ PdKill
  \/ PdFinFlush
  \/ FinStats
  \/ FinCheckpoint
  \/ PdFinClose

SpecPeriodic == InitSpecPeriodic /\ [][NextPeriodic]_vars

\* C24 (as claimed): when a periodic checkpoint with position p is written,
\* the record of every item below p that was fetched is in data/db.json.
C24_FlushedClaim ==
  [][(pc = "ckpt" /\ written' # written)
       => \A j \in 1..Len(got) :
            got[j].sku <= i => got[j].sku \in GetProcessedSkus(products')]_vars

(* ---------------------- counted items and storage ---------------------- *)
\* the dead-letter entries written by the current run, as identifiers
FailedSkus ==
  LET old == IF dl_start.exists THEN Len(dl_start.entries) ELSE 0
      all == IF retry_file.exists THEN retry_file.entries ELSE <<>>
  IN  [j \in 1..(Len(all) - old) |-> all[old + j].data.sku]

\* the identifiers asked for, without those that ended in the dead-letter
\* file: the items whose fetch returned a record (an item whose fetch is
\* still in flight comes last)
RECURSIVE ProcessedOf(_, _)
ProcessedOf(asked, failed_skus) ==
  IF asked = <<>> THEN <<>>
  ELSE IF failed_skus # <<>> /\ Head(failed_skus) = Head(asked)
       THEN ProcessedOf(Tail(asked), Tail(failed_skus))
       ELSE <<Head(asked)>> \o ProcessedOf(Tail(asked), failed_skus)

\* C25 (as claimed): once the final steps of a run are done, every item the
\* run counted as processed has a record in storage under the identifier
\* that was asked for.
C25_CountedStored ==
  (pc = "done" /\ fin = {"flush", "stats", "checkpoint", "close"}) =>
    LET ids == ProcessedOf(fetched, FailedSkus)
    IN  /\ stats.processed <= Len(ids)
        /\ \A j \in 1..stats.processed :
             ids[j] \in GetProcessedSkus(products)

(* --------------------- batch upsert and single upsert ------------------ *)
\* insert_product called on each record of the batch in order
RECURSIVE InsertEach(_, _)
InsertEach(table, batch) ==
  IF batch = <<>> THEN table
  ELSE InsertEach(InsertProduct(table, Head(batch)).table, Tail(batch))

\* C26 (as claimed): insert_products leaves the table as insert_product called
\* on each record of the batch in order does, and returns one doc_id for each
\* distinct key of the batch.
C26_BatchAsSingles ==
  [][(db_hist' # <<>> /\ db_hist'[Len(db_hist')].op = "insert_products")
      => LET call == db_hist'[Len(db_hist')]
             keys == Range(BatchSkus(call.arg))
         IN  /\ products' = InsertEach(products, call.arg)
             /\ Len(call.ret) = Cardinality(keys)
             /\ Cardinality(Range(call.ret)) = Cardinality(keys)]_vars

(* ------------------- retry mode and the scrape checkpoint -------------- *)
\* C27 (as claimed): no step of a run in retry mode changes
\* data/checkpoint_scrape.json.
C27_RetryKeepsCheckpoint ==
  [][(pc \in LoopPcs \cup FinPcs /\ args.retry) => checkpoint' = checkpoint]_vars

(* ------------------- the dead-letter file after a retry ---------------- *)
\* C28 (as claimed): after a retry run without --skip/--limit that went
\* through its list, the dead-letter file lists the items that failed again, each once, and no
\* item whose retry succeeded.
C28_RetryConsumes ==
  (pc = "done" /\ args.retry /\ exit_kind = "exhausted" /\ dl_start.exists
     /\ args.skip = 0 /\ args.limit = 0) =>
    LET listed == [j \in 1..Len(retry_file.entries) |->
                     retry_file.entries[j].data.sku]
    IN  \A sku \in 1..MaxItems :
          Count(listed, sku) = IF sku \in Range(FailedSkus) THEN 1 ELSE 0

(***************************************************************************)
(* SpecRate: the requests of one ProductScraper over a few items, with     *)
(* time.  Times are in hundredths of a second.  pf keeps the time elapsed  *)
(* since last_request_time was set (since_set) and since the previous      *)
(* request was sent (since_req); both are kept up to request_delay, which  *)
(* is all the comparisons of the code and of the claim need.               *)
(***************************************************************************)
\* a time that has grown by d
Elapsed(t, d) == Min(t + d, RequestDelay)

\* product_scraper.py:155-157  the sleep before a request
RateWait(since_set) ==
  IF since_set < RequestDelay THEN RequestDelay - since_set ELSE 0

InitSpecRate ==
  /\ InitIdle
  /\ pf = [op |-> "wait", item |-> 1, retries |-> 0, delay |-> InitialDelay,
           since_set |-> RequestDelay, since_req |-> RequestDelay,
           sent |-> 0, gap |-> RequestDelay]

\* product_scraper.py:155-157  rate limiting
RtWait ==
  /\ pf.op = "wait"
  /\ LET d == RateWait(pf.since_set)
     IN  pf' = [pf EXCEPT !.op = "send",
                          !.since_set = Elapsed(@, d),
                          !.since_req = Elapsed(@, d)]
  /\ PfFrame

\* product_scraper.py:193  the request is sent
RtSend ==
  /\ pf.op = "send"
  /\ pf' = [pf EXCEPT !.op = "sent",
                       !.gap = pf.since_req,
                       !.since_req = 0,
                       !.sent = Min(@ + 1, 2)]
  /\ PfFrame

\* product_scraper.py:193-203  a response arrives after d
RtResponse(d, ok) ==
  /\ pf.op = "sent"
  /\ pf' = [pf EXCEPT !.op = IF ok THEN "between" ELSE "except",
                       !.since_set = 0,
                       !.since_req = Elapsed(@, d)]
  /\ PfFrame

\* product_scraper.py:193-200  requests.post raises after d
RtPostRaises(d) ==
  /\ pf.op = "sent"
  /\ pf' = [pf EXCEPT !.op = "except",
                       !.since_set = Elapsed(@, d),
                       !.since_req = Elapsed(@, d)]
  /\ PfFrame

\* utils.py:134-148  the exception is counted; sleep before the next attempt
RtBackoff(pct) ==
  /\ pf.op = "except"
  /\ ~Exhausted(pf.retries + 1, FetchMaxRetries)
  /\ LET d == (pf.delay * pct) \div 100
     IN  pf' = [pf EXCEPT !.op = "wait",
                          !.retries = @ + 1,
                          !.delay = @ * Factor,
                          !.since_set = Elapsed(@, d),
                          !.since_req = Elapsed(@, d)]
  /\ PfFrame

\* utils.py:137-139, product_scraper.py:306-309  the last attempt failed
RtGiveUp ==
  /\ pf.op = "except"
  /\ Exhausted(pf.retries + 1, FetchMaxRetries)
  /\ pf' = [pf EXCEPT !.op = "between"]
  /\ PfFrame

\* main.py:144-155  after d the loop calls process_product for the next item
RtNextItem(d) ==
  /\ pf.op = "between"
  /\ pf.item < MaxRateItems
  /\ pf' = [pf EXCEPT !.op = "wait", !.item = @ + 1, !.retries = 0,
                       !.delay = InitialDelay,
                       !.since_set = Elapsed(@, d),
                       !.since_req = Elapsed(@, d)]
  /\ PfFrame

NextRate ==
  \/ RtWait
  \/ RtSend
  \/ \E d \in 0..MaxLatency, ok \in BOOLEAN : RtResponse(d, ok)
  \/ \E d \in 0..MaxLatency : RtPostRaises(d)
  \/ \E pct \in JitterPcts : RtBackoff(pct)
  \/ RtGiveUp
  \/ \E d \in 0..MaxLatency : RtNextItem(d)

SpecRate == InitSpecRate /\ [][NextRate]_vars

\* C29 (as claimed): a request that is not the first of the process is sent
\* at least request_delay after the previous one.
C29_MinDelay ==
  (pf.op = "sent" /\ pf.sent >= 2) => pf.gap >= RequestDelay

(* ----------------------- attempts of one fetch ------------------------- *)
\* C30 (as claimed): the fetch of one work item makes at most max_retries
\* attempts, max_retries being the value the scraper is configured with.
C30_AttemptsBound == bo_calls <= MAX_RETRIES

(* ------------------------- sleeps of the back-off ---------------------- *)
\* initial_delay * factor^k, the delay before jitter of sleep number k + 1
Nominal(k) == InitialDelay * Factor^k

\* C31: sleep number k + 1 of a call lies within 20% of
\* initial_delay * factor^k; one sleep follows every failed attempt but the
\* last of a call that gives up, and none follows an attempt that returns.
C31_Sleeps ==
  /\ \A k \in 1..Len(bo_sleeps) :
       /\ 100 * bo_sleeps[k] >= 80 * Nominal(k - 1)
       /\ 100 * bo_sleeps[k] <= 120 * Nominal(k - 1)
  /\ bo_result.kind = "running" => Len(bo_sleeps) = bo_calls
  /\ bo_result.kind = "returned" => Len(bo_sleeps) = bo_calls - 1
  /\ bo_result.kind = "raised" =>
       Len(bo_sleeps) = bo_calls - 1 /\ Len(bo_sleeps) = bo_m

\* three retries: nominal delays 1 s, 2 s and 4 s, then the call gives up
C31_Witness ==
  /\ bo_m = 3 /\ bo_result.kind = "raised" /\ bo_calls = 4
  /\ bo_sleeps = <<80, 200, 476>>

(* ----------------------- failure counters of the pool ------------------ *)
\* the entry of the pool with this endpoint
EntryOf(pool, url) == pool[PoolFind(pool, url)]

\* C32: report_success sets the counter of the named entry to zero,
\* report_failure adds one to it and evicts the entry when that makes three;
\* nothing else in the pool changes, a report for an endpoint that is not in
\* the pool changes nothing, and every counter in the pool is in 0..2.
C32_FailCounters ==
  /\ [](\A j \in 1..Len(proxy_list) :
          proxy_list[j].fail_count \in 0..(EvictThreshold - 1))
  /\ [][(px_op'.op \in {"report_success", "report_failure"}
           /\ PoolFind(proxy_list, px_op'.url) = 0)
          => proxy_list' = proxy_list /\ proxy_index' = proxy_index]_vars
  /\ [][(px_op'.op = "report_success" /\ PoolFind(proxy_list, px_op'.url) # 0)
          => /\ EntryOf(proxy_list', px_op'.url).fail_count = 0
             /\ Len(proxy_list') = Len(proxy_list)
             /\ \A j \in 1..Len(proxy_list) :
                  /\ proxy_list'[j].url = proxy_list[j].url
                  /\ proxy_list[j].url # px_op'.url
                       => proxy_list'[j] = proxy_list[j]]_vars
  /\ [][(px_op'.op = "report_failure" /\ PoolFind(proxy_list, px_op'.url) # 0)
          => LET old == EntryOf(proxy_list, px_op'.url)
                 others(pool) == SelectSeq(pool, LAMBDA e : e.url # px_op'.url)
             IN  /\ others(proxy_list') = others(proxy_list)
                 /\ IF old.fail_count = EvictThreshold - 1
                    THEN PoolFind(proxy_list', px_op'.url) = 0
                    ELSE /\ Len(proxy_list') = Len(proxy_list)
                         /\ EntryOf(proxy_list', px_op'.url).fail_count
                              = old.fail_count + 1]_vars

\* a success has just reset the counter of one endpoint while another one
\* of the pool stands at two failures
C32_Witness ==
  /\ use_proxy /\ Len(proxy_list) = 2
  /\ px_op.op = "report_success"
  /\ PoolFind(proxy_list, px_op.url) # 0
  /\ \E j \in 1..Len(proxy_list) : proxy_list[j].fail_count = EvictThreshold - 1
  /\ EntryOf(proxy_list, px_op.url).fail_count = 0

(* --------------------------- cursor of the pool ------------------------ *)
\* C33: whenever the pool is not empty the cursor is an index of the pool,
\* so self.proxy_list[self.proxy_index] in _get_free_proxy is in range.
C33_CursorInRange ==
  (use_proxy /\ proxy_list # <<>>) =>
    /\ proxy_index >= 0
    /\ proxy_index + 1 \in DOMAIN proxy_list

\* the cursor pointed at the last of three entries or behind the evicted
\* one, an eviction moved it back, and it points at the last of two
C33_Witness ==
  /\ use_proxy /\ Len(proxy_list) = 2 /\ proxy_index = 1
  /\ px_op.op = "report_failure" /\ px_round = <<>>
  /\ PoolFind(proxy_list, px_op.url) = 0

TextChars == {"a", "-", "|", " "}

TextsUpTo(n) == SeqsOf(TextChars, 0, n)

\* str.strip()
RECURSIVE Strip(_)
Strip(text) ==
  IF text = <<>> THEN text
  ELSE IF Head(text) = " " THEN Strip(Tail(text))
  ELSE IF text[Len(text)] = " " THEN Strip(SubSeq(text, 1, Len(text) - 1))
  ELSE text

\* position of the first c in text, 0 if none
FirstOf(text, c) ==
  IF \E k \in 1..Len(text) : text[k] = c
  THEN CHOOSE k \in 1..Len(text) :
         text[k] = c /\ \A h \in 1..(k - 1) : text[h] # c
  ELSE 0

\* str.split(c, maxsplit)
RECURSIVE SplitAt(_, _, _)
SplitAt(text, c, maxsplit) ==
  LET k == FirstOf(text, c)
  IN  IF maxsplit = 0 \/ k = 0 THEN <<text>>
      ELSE <<SubSeq(text, 1, k - 1)>>
             \o SplitAt(SubSeq(text, k + 1, Len(text)), c, maxsplit - 1)

\* utils.py:156-166  extract_sku_from_url: url.split('-')[-1]
SkuOfText(url) ==
  LET parts == SplitAt(url, "-", Len(url))
  IN  parts[Len(parts)]

\* sitemap_parser.py:79-90  the url_info list of the <url> elements; an
\* element without <loc> text is left out, one without <lastmod> gets ""
ParseLocs(elems) ==
  LET kept == SelectSeq(elems, LAMBDA el : el.loc # <<>>)
  IN  [j \in 1..Len(kept) |->
         [url |-> kept[j].loc, lastmod |-> kept[j].lastmod,
          sku |-> SkuOfText(kept[j].loc)]]

\* sitemap_parser.py:117  f"{url}|{sku}|{lastmod}\n"
CacheLine(url_info) ==
  url_info.url \o <<"|">> \o url_info.sku \o <<"|">> \o url_info.lastmod

\* sitemap_parser.py:103-119  _cache_urls: the cache file afterwards
CacheUrls(file, product_urls) ==
  IF product_urls = <<>> THEN file
  ELSE [exists |-> TRUE,
        lines |-> [j \in 1..Len(product_urls) |-> CacheLine(product_urls[j])]]

\* sitemap_parser.py:131-143  the url_info of one line of the cache file
LoadLine(line) ==
  LET parts == SplitAt(line, "|", 2)
      url == parts[1]
  IN  [url |-> url,
       sku |-> IF Len(parts) > 1 THEN parts[2] ELSE SkuOfText(url),
       lastmod |-> IF Len(parts) > 2 THEN parts[3] ELSE <<>>]

\* sitemap_parser.py:121-148  load_cached_urls
LoadCachedUrls(file) ==
  IF ~file.exists THEN <<>>
  ELSE LET stripped == [j \in 1..Len(file.lines) |-> Strip(file.lines[j])]
           kept == SelectSeq(stripped, LAMBDA line : line # <<>>)
       IN  [j \in 1..Len(kept) |-> LoadLine(kept[j])]

\* the <url> elements of a sitemap
CacheElems == [loc : TextsUpTo(MaxLocLen), lastmod : TextsUpTo(MaxModLen)]

\* sitemap_parser.py:196-205  the <url> elements of the fallback sitemap
FallbackElems ==
  [k \in 1..Len(FallbackLocs) |->
     [loc |-> <<FallbackLocs[k][1], "-", ToString(FallbackLocs[k][2])>>,
      lastmod |-> <<"2025", "-", "04", "-", "24T01:00:15+00:00">>]]

\* what fetch_sitemap ends with: it raises, it got 403, or it returns a text
\* that is no XML or a sitemap
CacheOutcomes ==
  {[kind |-> "raised"], [kind |-> "forbidden"], [kind |-> "text", xml |-> FALSE]}
  \cup {[kind |-> "text", xml |-> TRUE, elems |-> e] :
          e \in SeqsOf(CacheElems, 0, MaxCacheLocs)}

InitSpecCache ==
  /\ InitIdle
  /\ pf = [op |-> "init", file |-> NoFile, persisted |-> <<>>]

\* sitemap_parser.py:58-61  the text fetch_sitemap returns
FetchedText(outcome) ==
  IF outcome.kind = "forbidden"
  THEN [kind |-> "text", xml |-> TRUE, elems |-> FallbackElems]
  ELSE outcome

\* a get_urls that never reads the cache
UseCache_never(force_refresh, exists) == FALSE

\* sitemap_parser.py:154  if not force_refresh and self.cache_file.exists()
UseCache(force_refresh, exists) == ~force_refresh /\ exists

\* sitemap_parser.py:154-155  the cache file exists and no refresh is forced
CaFromCache ==
  /\ UseCache(FALSE, pf.file.exists)
  /\ pf' = [op |-> "get_urls", force_refresh |-> FALSE, had_file |-> TRUE,
            remote |-> FALSE, kind |-> "urls", outcome |-> "none",
            urls |-> LoadCachedUrls(pf.file), before |-> pf.persisted,
            file |-> pf.file, persisted |-> pf.persisted]
  /\ PfFrame

\* sitemap_parser.py:156-157,66-101  fetch and parse
CaFromRemote(force_refresh, outcome) ==
  /\ ~UseCache(force_refresh, pf.file.exists)
  /\ LET had_file == pf.file.exists
         text == FetchedText(outcome)
         common == [op |-> "get_urls", force_refresh |-> force_refresh,
                    had_file |-> had_file, remote |-> TRUE,
                    outcome |-> outcome.kind, before |-> pf.persisted]
     IN  pf' =
           IF outcome.kind = "raised"
           THEN common @@ [kind |-> "raised", urls |-> <<>>, file |-> pf.file,
                           persisted |-> pf.persisted]
           ELSE IF ~text.xml
           THEN common @@ [kind |-> "parse_error", urls |-> <<>>,
                           file |-> pf.file, persisted |-> pf.persisted]
           ELSE LET urls == ParseLocs(text.elems)
                IN  common @@ [kind |-> "urls", urls |-> urls,
                               file |-> CacheUrls(pf.file, urls),
                               persisted |-> IF urls = <<>> THEN pf.persisted
                                             ELSE urls]
  /\ PfFrame

NextCache ==
  \/ CaFromCache
  \/ \E force_refresh \in BOOLEAN, outcome \in CacheOutcomes :
       CaFromRemote(force_refresh, outcome)

SpecCache == InitSpecCache /\ [][NextCache]_vars

\* C35 (as claimed): with a cache file and no forced refresh get_urls returns,
\* without a request, the list that was last written to the cache, item by
\* item; otherwise it returns the list parsed from the remote index, and the
\* cache then holds exactly that list.
C35_CacheClaim ==
  pf.op = "get_urls" =>
    IF pf.had_file /\ ~pf.force_refresh
    THEN ~pf.remote /\ pf.kind = "urls" /\ pf.urls = pf.before
    ELSE /\ pf.remote
         /\ pf.kind = "urls" => LoadCachedUrls(pf.file) = pf.urls

(* ------------------- discovery when the index fails -------------------- *)
\* C36 (as claimed): a call of parse_sitemap whose last request got a status
\* other than 200 and 403, or no response at all, returns the empty list.
C36_FailureIsEmpty ==
  \A k \in 1..Len(pf.results) :
    pf.results[k].status \notin {200, 403}
      => pf.results[k].kind = "urls" /\ pf.results[k].urls = <<>>


\* the work list of the fallback sitemap
FallbackItems == ParseLocs(FallbackElems)

\* C38: a get_urls whose request got 403 returns the fallback list and
\* leaves it in the cache as a parsed index is left there; from then on, as
\* long as no refresh is forced, get_urls returns that list from the cache
\* without a request.
C38_FallbackCached ==
  pf.op = "get_urls" =>
    /\ pf.outcome = "forbidden"
         => /\ pf.kind = "urls" /\ pf.urls = FallbackItems
            /\ pf.file = CacheUrls(NoFile, FallbackItems)
            /\ LoadCachedUrls(pf.file) = FallbackItems
            /\ pf.persisted = FallbackItems
    /\ (pf.before = FallbackItems /\ pf.had_file /\ ~pf.force_refresh)
         => /\ ~pf.remote
            /\ pf.kind = "urls" /\ pf.urls = FallbackItems
            /\ pf.file = CacheUrls(NoFile, FallbackItems)
            /\ pf.persisted = FallbackItems

\* a call after the one that got 403 was served from the cache
C38_Witness ==
  /\ pf.op = "get_urls" /\ ~pf.remote /\ pf.had_file /\ ~pf.force_refresh
  /\ pf.before = FallbackItems /\ pf.urls = FallbackItems
  /\ Len(pf.urls) = 52
  /\ pf.urls[52] = [url |-> <<"https://www.plus.nl/product/product", "-", "553975">>,
                    sku |-> <<"553975">>,
                    lastmod |-> <<"2025", "-", "04", "-", "24T01:00:15+00:00">>]

(***************************************************************************)
(* SpecCrash: create_checkpoint and the start of scrape_task as in         *)
(* SpecCkpt, with processes that die inside create_checkpoint.  The next   *)
(* process finds the file as the dead one left it.                         *)
(***************************************************************************)
\* where create_checkpoint can be cut short: before open(..., "w"), after it
\* and before json.dump has written anything, in the middle of the text,
\* after the text is complete
CrashPoints == {"before_open", "truncated", "partial", "written"}

\* utils.py:197-198  the file a process leaves that died at this point
FileAfterCrash(point, old, new) ==
  IF point = "before_open" THEN old
  ELSE IF point = "written" THEN new
  ELSE [exists |-> TRUE, corrupt |-> "not_json"]

\* utils.py:180-200  a process dies inside create_checkpoint
CkCrash(checkpoint_type, current_position, total, point) ==
  /\ LET old == pf.files[CheckpointFile(checkpoint_type)]
         new == CreateCheckpoint(current_position, total, now)
         left == FileAfterCrash(point, old, new)
     IN  pf' = [op |-> "crash", type |-> checkpoint_type, point |-> point,
                old |-> old, new |-> new,
                files |-> [pf.files EXCEPT ![CheckpointFile(checkpoint_type)] = left],
                saved |-> [pf.saved EXCEPT ![checkpoint_type] =
                             IF point = "written"
                             THEN [saved |-> TRUE,
                                   current_position |-> current_position,
                                   total |-> total]
                             ELSE IF point = "before_open" THEN @
                             ELSE NoSave]]
  /\ PfFrame

NextCrash ==
  \/ \E t \in CkptTypes, a \in CkptArgs : CkCreate(t, a[1], a[2])
  \/ \E t \in CkptTypes, a \in CkptArgs, point \in CrashPoints :
       CkCrash(t, a[1], a[2], point)
  \/ \E t \in CkptTypes : CkLoad(t)
  \/ \E retry \in BOOLEAN : CkRunStart(retry)

SpecCrash == InitSpecCkpt /\ [][NextCrash]_vars

\* C37 (as claimed): after a process died inside create_checkpoint the file
\* holds the checkpoint it held before or the new one, and a run that starts
\* from it starts at the position of one of the two.
C37_CrashSafe ==
  (pf.op = "crash" /\ IsCheckpoint(pf.old)) =>
    LET file == pf.files[CheckpointFile(pf.type)]
        start == ResumeFrom(LoadCheckpoint(file), FALSE)
    IN  /\ file \in {pf.old, pf.new}
        /\ start.kind = "started"
        /\ start.start_idx \in {pf.old.current_position,
                                pf.new.current_position}

=============================================================================
